---- MODULE Spec2Model ----
(***************************************************************************)
(* Model of github.com/blugnu/http: the client's request execution         *)
(* (client.Do: directive parsing, retry loop, status acceptance, body      *)
(* materialization) and the request options that write the directive       *)
(* headers.                                                                *)
(*                                                                         *)
(* Go strings are modelled as sequences of one-character strings, so that  *)
(* strconv.Atoi / strconv.Itoa and json.Marshal / json.Unmarshal are       *)
(* computed character by character.                                        *)
(***************************************************************************)
EXTENDS Integers, Sequences, FiniteSets, TLC

(* ------------------------------ bounds --------------------------------- *)

\* largest client.maxRetries and largest argument of request.MaxRetries
MaxClientRetries == 2
\* longest accept-status list the AcceptStatus option is allowed to build
MaxAcceptLen == 3
\* cap on the number of transport invocations of one client.Do
MaxCalls == 4
\* longest response body
MaxBodyLen == 1
\* width of Go's uint/int in the model (64 in the build; scaled for TLC)
UintBits == 16
\* the largest number of expectations registered on the mock
MaxExpectations == 2
\* the largest number of requests the mock receives
MaxMockRequests == 2
\* the largest number of clients NewClient builds
MaxClients == 3
\* the number of goroutines that call mock.Do at the same time
MaxCallers == 2

(* ------------------------- program constants --------------------------- *)

StatusOK == 200
StatusNotFound == 404
StatusUnauthorized == 401
\* ContentLength of a response whose length the transport does not know
UnknownLength == -1

MaxRetriesHeader == "X-Blugnu-Http-Max-Retries"
AcceptStatusHeader == "X-Blugnu-Http-Accept-Status"
ResponseBodyRequiredHeader == "X-Blugnu-Http-Response-Body-Required"
StreamResponseHeader == "X-Blugnu-Http-Stream-Response"

\* the four reserved directive headers, in the order parseRequestHeaders reads them
DirectiveHeaders ==
    <<MaxRetriesHeader, AcceptStatusHeader, ResponseBodyRequiredHeader, StreamResponseHeader>>

DirectiveKeys == {DirectiveHeaders[i] : i \in 1..Len(DirectiveHeaders)}

(* ------------------------------ errors --------------------------------- *)
(* An error value is the set of errors its chain matches under errors.Is   *)
(* ("is") and the text parts its message is built from ("text").  The nil  *)
(* error matches nothing.                                                  *)

NilErr == [is |-> {}, text |-> <<>>]

\* errors.New / a sentinel
Sentinel(name) == [is |-> {<<name, 0>>}, text |-> <<name>>]

ErrInvalidJSON == Sentinel("invalid json")
ErrInvalidRequestHeader == Sentinel("invalid request headers")
ErrMaxRetriesExceeded == Sentinel("http retries exceeded")
ErrNoResponseBody == Sentinel("response body was empty")
ErrReadingResponseBody == Sentinel("error reading response body")
ErrUnexpectedStatusCode == Sentinel("unexpected status code")

\* errors of the standard library and of the transport
StrconvErrSyntax == Sentinel("strconv.Atoi: invalid syntax")
JSONSyntaxError == Sentinel("json: syntax error")
JSONUnmarshalTypeError == Sentinel("json: cannot unmarshal")
ReadErr == Sentinel("read error")
\* the error the transport returns on its k-th invocation
TransportErr(k) == [is |-> {<<"transport error", k>>}, text |-> <<"transport error">>]
\* context.Canceled
Canceled == Sentinel("context canceled")
\* the error the transport returns on its k-th invocation when the context of
\* the request has been cancelled: it wraps context.Canceled
CanceledErr(k) ==
    [is |-> TransportErr(k).is \cup Canceled.is,
     text |-> TransportErr(k).text \o <<": ">> \o Canceled.text]

\* errors.Is(err, target) for a target that is a sentinel or a leaf error
Is(err, target) == target.is \subseteq err.is /\ target.is # {}

\* the text parts of a list of errors, separated by sep
RECURSIVE JoinText(_, _)
JoinText(errs, sep) ==
    IF errs = <<>> THEN <<>>
    ELSE IF Len(errs) = 1 THEN errs[1].text
    ELSE errs[1].text \o sep \o JoinText(Tail(errs), sep)

\* fmt.Errorf / errorcontext.Errorf / errorcontext.Wrap with one or more %w
\* verbs: every wrapped error stays matchable, the text parts are concatenated
WrapAll(prefix, errs) ==
    [is |-> UNION {errs[i].is : i \in 1..Len(errs)},
     text |-> prefix \o JoinText(errs, <<": ">>)]

\* errors.Join: nil errors are dropped, the result is nil when all are nil
Join(errs) ==
    LET kept == SelectSeq(errs, LAMBDA e : e # NilErr)
    IN  IF kept = <<>> THEN NilErr
        ELSE [is |-> UNION {kept[i].is : i \in 1..Len(kept)},
              text |-> JoinText(kept, <<"\n">>)]

(* ------------------------ strings and numbers -------------------------- *)

Digits == <<"0", "1", "2", "3", "4", "5", "6", "7", "8", "9">>

IsDigit(ch) == \E i \in 1..Len(Digits) : Digits[i] = ch

DigitVal(ch) == (CHOOSE i \in 1..Len(Digits) : Digits[i] = ch) - 1

AllDigits(s) == s # <<>> /\ \A i \in 1..Len(s) : IsDigit(s[i])

RECURSIVE DigitsVal(_)
DigitsVal(s) ==
    IF s = <<>> THEN 0
    ELSE DigitsVal(SubSeq(s, 1, Len(s) - 1)) * Len(Digits) + DigitVal(s[Len(s)])

RECURSIVE NatStr(_)
NatStr(k) ==
    IF k < Len(Digits) THEN <<Digits[k + 1]>>
    ELSE NatStr(k \div Len(Digits)) \o <<Digits[(k % Len(Digits)) + 1]>>

\* uint(i) and int(u): conversions between Go's int and uint (wrap around)
ToUint(i) == i % (2 ^ UintBits)

ToInt(u) == IF u < 2 ^ (UintBits - 1) THEN u ELSE u - 2 ^ UintBits

\* strconv.Itoa
Itoa(i) == IF i < 0 THEN <<"-">> \o NatStr(-i) ELSE NatStr(i)

\* strconv.Atoi: an optional sign followed by one or more decimal digits
\* (the out-of-range error needs more digits than the model's strings have)
Atoi(s) ==
    LET signed == s # <<>> /\ s[1] \in {"+", "-"}
        digits == IF signed THEN Tail(s) ELSE s
    IN  IF ~AllDigits(digits) THEN [val |-> 0, err |-> StrconvErrSyntax]
        ELSE [val |-> IF signed /\ s[1] = "-" THEN -DigitsVal(digits) ELSE DigitsVal(digits),
              err |-> NilErr]

(* ------------------------------- JSON ---------------------------------- *)
(* A Go slice is [isNil, elems]: json distinguishes a nil slice ("null")    *)
(* from an empty one ("[]").                                               *)

NilSlice == [isNil |-> TRUE, elems |-> <<>>]

Slice(elems) == [isNil |-> FALSE, elems |-> elems]

\* append(s, more...)
AppendSlice(s, more) ==
    IF s.isNil /\ more = <<>> THEN NilSlice ELSE Slice(s.elems \o more)

NullLit == <<"n", "u", "l", "l">>
TrueLit == <<"t", "r", "u", "e">>
FalseLit == <<"f", "a", "l", "s", "e">>

RECURSIVE JoinInts(_)
JoinInts(elems) ==
    IF elems = <<>> THEN <<>>
    ELSE IF Len(elems) = 1 THEN Itoa(elems[1])
    ELSE Itoa(elems[1]) \o <<",">> \o JoinInts(Tail(elems))

\* json.Marshal of a []int
Marshal(s) == IF s.isNil THEN NullLit ELSE <<"[">> \o JoinInts(s.elems) \o <<"]">>

\* the items of a comma separated list
RECURSIVE SplitComma(_)
SplitComma(s) ==
    IF \A i \in 1..Len(s) : s[i] # ","
    THEN <<s>>
    ELSE LET i == CHOOSE j \in 1..Len(s) : s[j] = "," /\ \A k \in 1..(j - 1) : s[k] # ","
         IN  <<SubSeq(s, 1, i - 1)>> \o SplitComma(SubSeq(s, i + 1, Len(s)))

\* a JSON integer literal: -?(0|[1-9][0-9]*)
IsJSONInt(item) ==
    LET neg == item # <<>> /\ item[1] = "-"
        digits == IF neg THEN Tail(item) ELSE item
    IN  AllDigits(digits) /\ (Len(digits) = 1 \/ digits[1] # "0")

\* the scalar JSON values of the model's grammar
IsJSONScalar(item) == IsJSONInt(item) \/ item \in {NullLit, TrueLit, FalseLit}

\* does the literal decode into an element of the target type?  null leaves
\* the element as it is; a negative number does not fit an unsigned target
ElemFits(item, unsigned) ==
    \/ item = NullLit
    \/ IsJSONInt(item) /\ ~(unsigned /\ item[1] = "-")

\* json.Unmarshal(s, &prior) for a prior of type []int (unsigned = FALSE) or
\* []uint (unsigned = TRUE).  Syntax is checked before anything is stored;
\* null sets the slice to nil; an array is decoded element by element into the
\* prior slice, whose length becomes the array's; a type error is reported
\* after the rest has been decoded.
Unmarshal(s, prior, unsigned) ==
    LET isArray == Len(s) >= 2 /\ s[1] = "[" /\ s[Len(s)] = "]"
        inner == SubSeq(s, 2, Len(s) - 1)
        items == IF inner = <<>> THEN <<>> ELSE SplitComma(inner)
        old(i) == IF i <= Len(prior.elems) THEN prior.elems[i] ELSE 0
        elem(i) == IF IsJSONInt(items[i]) /\ ElemFits(items[i], unsigned)
                   THEN Atoi(items[i]).val
                   ELSE old(i)
        decoded == Slice([i \in 1..Len(items) |-> elem(i)])
    IN  IF s = NullLit THEN [val |-> NilSlice, err |-> NilErr]
        ELSE IF IsJSONScalar(s) THEN [val |-> prior, err |-> JSONUnmarshalTypeError]
        ELSE IF ~isArray \/ \E i \in 1..Len(items) : ~IsJSONScalar(items[i])
        THEN [val |-> prior, err |-> JSONSyntaxError]
        ELSE IF \E i \in 1..Len(items) : ~ElemFits(items[i], unsigned)
        THEN [val |-> decoded, err |-> JSONUnmarshalTypeError]
        ELSE [val |-> decoded, err |-> NilErr]

(* --------------------------- request headers --------------------------- *)
(* rq.Header restricted to the reserved keys: a function from the keys     *)
(* that are present to their value lists.                                  *)

NoHeader == [k \in {} |-> <<>>]

\* rq.Header[k] = vals
SetHeader(h, k, vals) == [x \in DOMAIN h \cup {k} |-> IF x = k THEN vals ELSE h[x]]

\* delete(rq.Header, k)
DeleteHeader(h, k) == [x \in DOMAIN h \ {k} |-> h[x]]

(* --------------------------- request options --------------------------- *)

RequestErrInvalidJSON == Sentinel("request: invalid json")

\* faulty variant of Accumulate: the new codes replace the ones given before
AccumulateReplaces(acc, statusCodes) == Slice(statusCodes)

\* acc = append(acc, statusCodes...) in request.AcceptStatus
Accumulate(acc, statusCodes) == AppendSlice(acc, statusCodes)

\* request.AcceptStatus(statusCodes...)(rq): the header after the option, the
\* error it returns, and whether it aborts on h[0] of an empty value list
AcceptStatus(h, statusCodes) ==
    LET present == AcceptStatusHeader \in DOMAIN h
        default == Slice(<<StatusOK>>)
        um == IF present /\ h[AcceptStatusHeader] # <<>>
              THEN Unmarshal(h[AcceptStatusHeader][1], default, FALSE)
              ELSE [val |-> default, err |-> NilErr]
        acc == Accumulate(um.val, statusCodes)
    IN  IF present /\ h[AcceptStatusHeader] = <<>>
        THEN [header |-> h, err |-> NilErr, panics |-> TRUE]
        ELSE IF um.err # NilErr
        THEN [header |-> h,
              err |-> WrapAll(<<"request.AcceptStatus: ">>, <<RequestErrInvalidJSON, um.err>>),
              panics |-> FALSE]
        ELSE [header |-> SetHeader(h, AcceptStatusHeader, <<Marshal(acc)>>),
              err |-> NilErr,
              panics |-> FALSE]

\* request.MaxRetries(k)(rq)
MaxRetries(h, k) == SetHeader(h, MaxRetriesHeader, <<Itoa(ToInt(k))>>)

\* request.ResponseBodyRequired()(rq)
ResponseBodyRequired(h) == SetHeader(h, ResponseBodyRequiredHeader, <<TrueLit>>)

\* request.StreamResponse()(rq)
StreamResponse(h) == SetHeader(h, StreamResponseHeader, <<TrueLit>>)

(* ------------------------------ client.Do ------------------------------ *)

ClientName == "client"
Method == "GET"
URL == "http://host/path"

\* the error a malformed directive header is reported with
InvalidHeader(hdr, e) ==
    [is |-> ErrInvalidRequestHeader.is \cup e.is,
     text |-> ErrInvalidRequestHeader.text \o <<": ", hdr, ": ">> \o e.text]

\* the parse closure of parseRequestHeaders applied to one header: the error
\* of fn(s[0]) when the header is present, nil otherwise
ParseOne(h, hdr, fnErr) ==
    IF hdr \in DOMAIN h /\ fnErr # NilErr THEN InvalidHeader(hdr, fnErr) ELSE NilErr

\* s[0] of a header that is present with an empty value list
IndexPanics(h, hdr) == hdr \in DOMAIN h /\ h[hdr] = <<>>

\* faulty variant of StripFrom: the header is deleted only after fn succeeded,
\* and parsing returns at the first malformed header
RECURSIVE StripFromStopsAtError(_, _)
StripFromStopsAtError(h, i) ==
    LET hdr == DirectiveHeaders[i]
        fails == /\ hdr \in DOMAIN h
                 /\ h[hdr] # <<>>
                 /\ \/ hdr = MaxRetriesHeader /\ Atoi(h[hdr][1]).err # NilErr
                    \/ /\ hdr = AcceptStatusHeader
                       /\ Unmarshal(h[hdr][1], Slice(<<StatusOK>>), TRUE).err # NilErr
    IN  IF i > Len(DirectiveHeaders) THEN h
        ELSE IF IndexPanics(h, hdr) THEN DeleteHeader(h, hdr)
        ELSE IF fails THEN h
        ELSE StripFromStopsAtError(DeleteHeader(h, hdr), i + 1)

\* the headers left on the request by parseRequestHeaders: each parse call
\* deletes its header when it ends, also when it ends by aborting, and the
\* calls after an abort are never made
RECURSIVE StripFrom(_, _)
StripFrom(h, i) ==
    IF i > Len(DirectiveHeaders) THEN h
    ELSE IF IndexPanics(h, DirectiveHeaders[i]) THEN DeleteHeader(h, DirectiveHeaders[i])
    ELSE StripFrom(DeleteHeader(h, DirectiveHeaders[i]), i + 1)

\* faulty variant of OverrideMaxRetries: the request can only lower the
\* client's value
OverrideOnlyLowers(c, i) == IF ToUint(i) < c THEN ToUint(i) ELSE c

\* maxRetries = uint(i) in parseRequestHeaders: the request's value i replaces
\* the client's value c
OverrideMaxRetries(c, i) == ToUint(i)

\* client.parseRequestHeaders(rq) of a client with maxRetries c
ParseRequestHeaders(c, h) ==
    LET has(hdr) == hdr \in DOMAIN h /\ h[hdr] # <<>>
        first(hdr) == h[hdr][1]
        atoi == Atoi(first(MaxRetriesHeader))
        um == Unmarshal(first(AcceptStatusHeader), Slice(<<StatusOK>>), TRUE)
        errs == << IF has(MaxRetriesHeader)
                   THEN ParseOne(h, MaxRetriesHeader, atoi.err) ELSE NilErr,
                   IF has(AcceptStatusHeader)
                   THEN ParseOne(h, AcceptStatusHeader,
                                 IF um.err = NilErr THEN NilErr
                                 ELSE WrapAll(<<>>, <<ErrInvalidJSON, um.err>>))
                   ELSE NilErr,
                   NilErr,
                   NilErr >>
    IN  [maxRetries |-> IF has(MaxRetriesHeader) /\ atoi.err = NilErr
                        THEN OverrideMaxRetries(c, atoi.val) ELSE c,
         acceptableStatusCodes |-> IF has(AcceptStatusHeader)
                                   THEN um.val ELSE Slice(<<StatusOK>>),
         responseBodyRequired |-> has(ResponseBodyRequiredHeader)
                                  /\ first(ResponseBodyRequiredHeader) = TrueLit,
         streamResponse |-> has(StreamResponseHeader)
                            /\ first(StreamResponseHeader) = TrueLit,
         err |-> Join(errs),
         panics |-> \E i \in 1..Len(DirectiveHeaders) : IndexPanics(h, DirectiveHeaders[i]),
         header |-> StripFrom(h, 1)]

\* faulty variant of Handle: the error is formatted into the message and can
\* no longer be matched
HandleFlattens(e) == [is |-> {}, text |-> <<ClientName, ": ", Method, " ", URL, ": ">> \o e.text]

\* the handle closure of client.Do: the error with the client's name, the
\* request method and the url in front
Handle(e) == WrapAll(<<ClientName, ": ", Method, " ", URL, ": ">>, <<e>>)

\* faulty variant of DoOnError: gives up one attempt early
DoOnErrorOffByOne(r, k, e) ==
    IF r = 0 THEN [again |-> FALSE, n |-> k, err |-> e]
    ELSE IF k <= 1 THEN [again |-> FALSE, n |-> k,
                         err |-> WrapAll(<<>>, <<ErrMaxRetriesExceeded, e>>)]
    ELSE [again |-> TRUE, n |-> k - 1, err |-> NilErr]

\* faulty variant of DoOnError: with retries configured it never gives up
DoOnErrorNeverGivesUp(r, k, e) ==
    IF r = 0 THEN [again |-> FALSE, n |-> k, err |-> e]
    ELSE [again |-> TRUE, n |-> IF k = 0 THEN 0 ELSE k - 1, err |-> NilErr]

\* faulty variant of DoOnError: an error that comes from a cancelled context
\* is returned at once
DoOnErrorStopsOnCancel(r, k, e) ==
    IF r = 0 \/ Is(e, Canceled) THEN [again |-> FALSE, n |-> k, err |-> e]
    ELSE IF k = 0 THEN [again |-> FALSE, n |-> k,
                        err |-> WrapAll(<<>>, <<ErrMaxRetriesExceeded, e>>)]
    ELSE [again |-> TRUE, n |-> k - 1, err |-> NilErr]

\* faulty variant of DoOnError: the request is never submitted again
DoOnErrorGivesUp(r, k, e) == [again |-> FALSE, n |-> k, err |-> e]

\* the error branch of the loop of client.do: with r retries configured and k
\* attempts left, what follows the transport error e
DoOnError(r, k, e) ==
    IF r = 0 THEN [again |-> FALSE, n |-> k, err |-> e]
    ELSE IF k = 0 THEN [again |-> FALSE, n |-> k,
                        err |-> WrapAll(<<>>, <<ErrMaxRetriesExceeded, e>>)]
    ELSE [again |-> TRUE, n |-> k - 1, err |-> NilErr]

\* faulty variant of StatusAccepted: only the first acceptable code is compared
StatusAcceptedFirstOnly(accept, statusCode) ==
    accept.elems # <<>> /\ ToUint(statusCode) = accept.elems[1]

\* the status check of client.do
StatusAccepted(accept, statusCode) ==
    \E i \in 1..Len(accept.elems) : ToUint(statusCode) = accept.elems[i]

\* the error client.do returns with a response
StatusError(accept, statusCode) ==
    IF StatusAccepted(accept, statusCode) THEN NilErr
    ELSE WrapAll(<<>>, <<ErrUnexpectedStatusCode>>)

(* responses and body streams *)

NoBody == [kind |-> "NoBody", data |-> <<>>]
\* the body stream the transport returned, still attached to the response
TransportBody == [kind |-> "transport", data |-> <<>>]
\* io.NopCloser(bytes.NewReader(body))
MemoryBody(data) == [kind |-> "memory", data |-> data]

NilResponse == [isNil |-> TRUE, statusCode |-> 0, contentLength |-> 0, body |-> NoBody]

Response(statusCode, contentLength, body) ==
    [isNil |-> FALSE, statusCode |-> statusCode, contentLength |-> contentLength, body |-> body]

\* a transport body stream that holds data; fails: reading it ends in an error
NewStream(data, fails) == [data |-> data, fails |-> fails, eof |-> FALSE, closed |-> FALSE]

\* io.ReadAll(r.Body)
ReadAll(st) ==
    [body |-> IF st.fails THEN <<>> ELSE st.data,
     err |-> IF st.fails THEN ReadErr ELSE NilErr,
     stream |-> [st EXCEPT !.eof = ~st.fails]]

\* r.Body.Close()
Close(st) == [st EXCEPT !.closed = TRUE]

\* faulty variant of Bypass: the stream directive is ignored
BypassNever(streaming) == FALSE

\* if stream { return r, nil } in client.Do
Bypass(streaming) == streaming

\* faulty variant of EmptyBodyError: an empty body is always an error
EmptyBodyErrorAlways(body, bodyRequired) ==
    IF Len(body) = 0 THEN ErrNoResponseBody ELSE NilErr

\* the case len(body) == 0 && bodyRequired of client.Do
EmptyBodyError(body, bodyRequired) ==
    IF Len(body) = 0 /\ bodyRequired THEN ErrNoResponseBody ELSE NilErr

\* faulty variant of Materialize: the content length is left at zero
MaterializeKeepsLength(r, body) == [r EXCEPT !.body = MemoryBody(body)]

\* the default case of client.Do: the body replaced by an in-memory copy
Materialize(r, body) ==
    [r EXCEPT !.contentLength = Len(body), !.body = MemoryBody(body)]

\* client.Do after client.do returned the response r without error
HandleBody(r, st, bodyRequired, streaming) ==
    LET read == ReadAll(st)
        shell == [r EXCEPT !.contentLength = 0, !.body = NoBody]
        after == Close(read.stream)
    IN  IF Bypass(streaming) THEN [resp |-> r, err |-> NilErr, stream |-> st]
        ELSE IF read.err # NilErr
        THEN [resp |-> shell,
              err |-> Handle(WrapAll(<<"response.Body: ">>, <<read.err>>)),
              stream |-> after]
        ELSE IF EmptyBodyError(read.body, bodyRequired) # NilErr
        THEN [resp |-> shell,
              err |-> Handle(EmptyBodyError(read.body, bodyRequired)),
              stream |-> after]
        ELSE IF Len(read.body) = 0
        THEN [resp |-> shell, err |-> NilErr, stream |-> after]
        ELSE [resp |-> Materialize(r, read.body), err |-> NilErr, stream |-> after]

(* ------------------------------- state --------------------------------- *)

VARIABLES
    maxRetries,     \* client.maxRetries
    rqHeader,       \* rq.Header (the reserved keys)
    given,          \* the arguments the request options were applied with
    called,         \* rq.Header as it was when client.Do was called
    pc,             \* "build", "send" (in the loop of client.do), "done", "panic"
    retries,        \* the parameter retries of client.do
    n,              \* the local n of client.do
    accept,         \* the parameter accept of client.do
    bodyRequired,   \* bodyRequired in client.Do
    stream,         \* stream in client.Do
    calls,          \* the invocations of the transport, in order: the reserved
                    \* keys on the request, and what the transport returned
    resp,           \* the response client.Do returned
    err,            \* the error client.Do returned
    tbody           \* the body stream of the transport's response

vars == <<maxRetries, rqHeader, given, called, pc, retries, n, accept, bodyRequired,
          stream, calls, resp, err, tbody>>

doVars == <<retries, n, accept, bodyRequired, stream, calls, resp, err, tbody>>

(* inputs *)

\* status codes passed to request.AcceptStatus in one application
CodeArgs == {<<>>, <<StatusNotFound>>, <<StatusUnauthorized>>, <<-1>>}

\* status codes of the transport's responses
StatusCodes == {StatusOK, StatusNotFound, StatusUnauthorized}

\* value lists assigned directly to a reserved header (rq.Header[k] = []string{...})
\* (<<>> is a key that is present with no value)
RawValues(k) ==
    CASE k = MaxRetriesHeader -> {<<>>, <<<<"-", "1">>>>, <<<<"x">>>>}
      [] k = AcceptStatusHeader -> {<<>>, <<<<"[", "4", "0", "4", "]">>>>, <<NullLit>>, <<<<"x">>>>}
      [] k = ResponseBodyRequiredHeader -> {<<<<>>>>}
      [] k = StreamResponseHeader -> {}

Bytes == {"a", "b"}

\* the response bodies: the byte strings of length 0..MaxBodyLen
Bodies == UNION {[1..k -> Bytes] : k \in 0..MaxBodyLen}

\* the body streams of the transport's responses: one for every body, and one
\* whose first read fails
Streams == {NewStream(data, FALSE) : data \in Bodies} \cup {NewStream(<<>>, TRUE)}

(* the mock client *)

VARIABLES
    expectations,   \* mock.expectations: the MockRequests, in registration order
    unexpected,     \* mock.unexpected
    next,           \* mock.next
    received,       \* the requests mock.Do was called with since the mock was
                    \* created or reset, in order, each with the number of
                    \* expectations registered when it arrived
    doResult,       \* what the last call of mock.Do returned
    verdict,        \* what ExpectationsWereMet returned, when it was the last
                    \* operation on the mock; fresh: no body of an actual
                    \* request had been read before that call
    mockpc,         \* "run", or "panic" once an operation of the mock aborted
    fault,          \* the value the mock panicked with
    wasReset        \* Reset has been called

mockVars == <<expectations, unexpected, next, received, doResult, verdict, mockpc,
              fault, wasReset>>

(* further clients, the request of the paired client, concurrent callers *)

VARIABLES
    clients,        \* the clients NewClient has returned, in order: the options
                    \* each was built with and its field wrapped
    target,         \* the method and the URL of the request the paired client's
                    \* NewRequest built: <<>> before it, <<[method, url]>> after
    callers         \* the goroutines calling mock.Do at the same time: the
                    \* position of each in mock.Do and its locals

auxVars == <<clients, target, callers>>

firstExpectedRequest == 0
noExpectedRequests == -1

NilResult == [isNil |-> TRUE, resp |-> NilResponse, header |-> NoHeader, err |-> NilErr]
NoVerdict == [called |-> FALSE, isNil |-> TRUE, name |-> "", errors |-> <<>>, fresh |-> TRUE]

\* the mock returned by NewMockClient
NewMockClient ==
    /\ expectations = <<>>
    /\ unexpected = <<>>
    /\ next = noExpectedRequests
    /\ received = <<>>
    /\ doResult = NilResult
    /\ verdict = NoVerdict
    /\ mockpc = "run"
    /\ fault = NilErr
    /\ wasReset = FALSE

\* the client and the request before any option has been applied
InitClient ==
    /\ maxRetries \in 0..MaxClientRetries
    /\ rqHeader = NoHeader
    /\ given = [retries |-> {}, codes |-> {}, rawAccept |-> FALSE]
    /\ called = NoHeader
    /\ pc = "build"
    /\ retries = 0
    /\ n = 0
    /\ accept = NilSlice
    /\ bodyRequired = FALSE
    /\ stream = FALSE
    /\ calls = <<>>
    /\ resp = NilResponse
    /\ err = NilErr
    /\ tbody = NewStream(<<>>, FALSE)
    /\ clients = <<>>
    /\ target = <<>>
    /\ callers = [c \in 1..MaxCallers |->
                      [pc |-> "idle", rq |-> <<>>, index |-> noExpectedRequests,
                       cursor |-> noExpectedRequests,
                       slice |-> <<>>, alone |-> TRUE]]

Init ==
    /\ InitClient
    /\ NewMockClient

(* building the request *)

\* request.AcceptStatus(codes...) applied to a request whose accept-status
\* header, if it has one, was written by this option
OptAcceptStatus(codes) ==
    LET res == AcceptStatus(rqHeader, codes)
    IN  /\ pc = "build"
        /\ ~given.rawAccept
        /\ res.err = NilErr
        /\ ~res.panics =>
             Len(Unmarshal(res.header[AcceptStatusHeader][1], NilSlice, FALSE).val.elems)
                <= MaxAcceptLen
        /\ rqHeader' = res.header
        /\ pc' = IF res.panics THEN "panic" ELSE pc
        /\ given' = IF res.panics THEN given
                    ELSE [given EXCEPT !.codes = @ \cup {codes[i] : i \in 1..Len(codes)}]
        /\ UNCHANGED <<maxRetries, called, doVars>>
        /\ UNCHANGED <<mockVars, auxVars>>

\* request.MaxRetries(k) applied to the request
OptMaxRetries(k) ==
    /\ pc = "build"
    /\ rqHeader' = MaxRetries(rqHeader, k)
    /\ given' = [given EXCEPT !.retries = {k}]
    /\ UNCHANGED <<maxRetries, called, pc, doVars>>
    /\ UNCHANGED <<mockVars, auxVars>>

\* request.ResponseBodyRequired() applied to the request
OptResponseBodyRequired ==
    /\ pc = "build"
    /\ rqHeader' = ResponseBodyRequired(rqHeader)
    /\ UNCHANGED <<maxRetries, given, called, pc, doVars>>
    /\ UNCHANGED <<mockVars, auxVars>>

\* request.StreamResponse() applied to the request
OptStreamResponse ==
    /\ pc = "build"
    /\ rqHeader' = StreamResponse(rqHeader)
    /\ UNCHANGED <<maxRetries, given, called, pc, doVars>>
    /\ UNCHANGED <<mockVars, auxVars>>

\* rq.Header[k] = vals, written by the caller
SetRawHeader(k, vals) ==
    /\ pc = "build"
    /\ rqHeader' = SetHeader(rqHeader, k, vals)
    /\ given' = IF k = MaxRetriesHeader THEN [given EXCEPT !.retries = {}]
                ELSE IF k = AcceptStatusHeader
                THEN [given EXCEPT !.rawAccept = TRUE, !.codes = {}]
                ELSE given
    /\ UNCHANGED <<maxRetries, called, pc, doVars>>
    /\ UNCHANGED <<mockVars, auxVars>>

(* client.Do *)

\* client.Do up to the first invocation of the transport
DoParse ==
    LET p == ParseRequestHeaders(maxRetries, rqHeader)
    IN  /\ pc = "build"
        /\ called' = rqHeader
        /\ rqHeader' = p.header
        /\ IF p.panics
           THEN /\ pc' = "panic"
                /\ UNCHANGED doVars
           ELSE IF p.err # NilErr
           THEN /\ pc' = "done"
                /\ resp' = NilResponse
                /\ err' = Handle(p.err)
                /\ UNCHANGED <<retries, n, accept, bodyRequired, stream, calls, tbody>>
           ELSE /\ pc' = "send"
                /\ retries' = p.maxRetries
                /\ n' = p.maxRetries
                /\ accept' = p.acceptableStatusCodes
                /\ bodyRequired' = p.responseBodyRequired
                /\ stream' = p.streamResponse
                /\ UNCHANGED <<calls, resp, err, tbody>>
        /\ UNCHANGED <<maxRetries, given>>
        /\ UNCHANGED <<mockVars, auxVars>>

\* one invocation of the transport that returns the error e, and the loop of
\* client.do up to the next invocation or the return of client.Do
TransportFailsWith(e) ==
    LET d == DoOnError(retries, n, e)
    IN  /\ pc = "send"
        /\ Len(calls) < MaxCalls
        /\ calls' = Append(calls, [keys |-> DOMAIN rqHeader, ok |-> FALSE, statusCode |-> 0])
        /\ n' = d.n
        /\ IF d.again
           THEN UNCHANGED <<pc, resp, err>>
           ELSE /\ pc' = "done"
                /\ resp' = NilResponse
                /\ err' = Handle(d.err)
        /\ UNCHANGED <<maxRetries, rqHeader, given, called, retries, accept,
                       bodyRequired, stream, tbody>>
        /\ UNCHANGED <<mockVars, auxVars>>

\* the transport fails with an error of its own
TransportFails == TransportFailsWith(TransportErr(Len(calls) + 1))

\* the transport fails because the context of the request has been cancelled
TransportCanceled == TransportFailsWith(CanceledErr(Len(calls) + 1))

\* one invocation of the transport that returns a response, and client.Do up
\* to its return
TransportResponds(statusCode, st) ==
    LET r == Response(statusCode, UnknownLength, TransportBody)
        e == StatusError(accept, statusCode)
        b == HandleBody(r, st, bodyRequired, stream)
    IN  /\ pc = "send"
        /\ Len(calls) < MaxCalls
        /\ calls' = Append(calls, [keys |-> DOMAIN rqHeader, ok |-> TRUE,
                                   statusCode |-> statusCode])
        /\ pc' = "done"
        /\ IF e # NilErr
           THEN /\ resp' = r
                /\ err' = Handle(e)
                /\ tbody' = st
           ELSE /\ resp' = b.resp
                /\ err' = b.err
                /\ tbody' = b.stream
        /\ UNCHANGED <<maxRetries, rqHeader, given, called, retries, n, accept,
                       bodyRequired, stream>>
        /\ UNCHANGED <<mockVars, auxVars>>

\* client.Do on a request built with the request options, against a transport
\* that fails or responds as it likes; the mock is not in use
Next ==
    \/ \E codes \in CodeArgs : OptAcceptStatus(codes)
    \/ \E k \in 0..MaxClientRetries : OptMaxRetries(k)
    \/ OptResponseBodyRequired
    \/ OptStreamResponse
    \/ \E k \in DirectiveKeys : \E vals \in RawValues(k) : SetRawHeader(k, vals)
    \/ DoParse
    \/ TransportFails
    \/ \E statusCode \in StatusCodes, st \in Streams : TransportResponds(statusCode, st)

allVars == <<vars, mockVars, auxVars>>

Spec == Init /\ [][Next]_allVars

\* client.Do with a request context that has been cancelled: every invocation
\* of the transport that fails returns an error that wraps context.Canceled
NextCanceled ==
    \/ \E k \in 0..MaxClientRetries : OptMaxRetries(k)
    \/ OptResponseBodyRequired
    \/ DoParse
    \/ TransportCanceled
    \/ \E statusCode \in StatusCodes, st \in Streams : TransportResponds(statusCode, st)

SpecCanceled == Init /\ [][NextCanceled]_allVars

(* ----------------------------- mock client ----------------------------- *)
(* A *T that may be nil is a sequence: <<>> is nil, <<v>> points at v.      *)
(* Methods, URLs, header keys and header values are strings; bodies are     *)
(* sequences of one-character strings, as in the client.                    *)

MockName == "mock"
Hostname == "mock://hostname"
MethodGet == "GET"
MethodPost == "POST"

ErrCannotChangeExpectations == Sentinel("expectations cannot be changed")
ErrUnexpectedRequest == Sentinel("unexpected request")

\* url.JoinPath(mock.hostname, path) for a clean path that begins with "/"
JoinPath(base, path) == base \o path

\* the string of a sequence of one-character strings
RECURSIVE Str(_)
Str(chars) == IF chars = <<>> THEN "" ELSE Head(chars) \o Str(Tail(chars))

\* fmt's %d
Fmtd(k) == Str(Itoa(k))

(* requests *)

\* a request without a body stream (rq.Body == nil)
NilBody == [nil |-> TRUE, data |-> <<>>, eof |-> FALSE, closed |-> FALSE]

\* a request body stream that holds data
RequestBody(data) == [nil |-> FALSE, data |-> data, eof |-> FALSE, closed |-> FALSE]

\* io.ReadAll(rq.actual.Body): what is left of the stream
ReadRequestBody(body) == IF body.eof THEN <<>> ELSE body.data

\* the stream after io.ReadAll and Close
Consumed(body) == [body EXCEPT !.eof = TRUE, !.closed = TRUE]

Request(method, url, header, body) ==
    [method |-> method, url |-> url, header |-> header, body |-> body]

(* expectations *)

\* the MockRequest that Expect creates
MockRequest(index, method, url) ==
    [index |-> index,
     method |-> <<method>>,
     body |-> <<>>,
     url |-> url,
     headers |-> NoHeader,
     actual |-> <<>>,
     isExpected |-> TRUE,
     Response |-> <<>>]

\* MockRequest.checkMethodExpectation
checkMethodExpectation(rq) ==
    IF rq.method # <<>> /\ rq.method[1] # rq.actual[1].method
    THEN << "expected method: " \o rq.method[1],
            "   got         : " \o rq.actual[1].method >>
    ELSE <<>>

\* faulty variant of checkURLExpectation: a blank expected URL matches every
\* URL
checkURLBlankIsWildcard(rq) ==
    IF rq.url # "" /\ rq.url # rq.actual[1].url
    THEN << "expected url: " \o rq.url,
            "   got      : " \o rq.actual[1].url >>
    ELSE <<>>

\* MockRequest.checkURLExpectation
checkURLExpectation(rq) ==
    LET u == IF rq.url = "" THEN "<not specified>" ELSE rq.url
    IN  IF rq.url # rq.actual[1].url
        THEN << "expected url: " \o u,
                "   got      : " \o rq.actual[1].url >>
        ELSE <<>>

\* av[0] where the value list may be empty (the code aborts then: IndexAborts)
First(av) == IF av = <<>> THEN "" ELSE av[1]

\* the dump of the actual headers in checkHeadersExpectation, the keys taken
\* in the order the map iteration yields them
RECURSIVE HeaderDump(_, _)
HeaderDump(header, order) ==
    IF order = <<>> THEN <<>>
    ELSE (IF Head(order) \in DOMAIN header
          THEN << "             " \o Head(order) \o ": " \o First(header[Head(order)]) >>
          ELSE <<>>) \o HeaderDump(header, Tail(order))

\* faulty variant of checkHeader: a key that is present satisfies the
\* expectation whatever its value
checkHeaderIgnoresValue(rq, k, dumpOrder) ==
    LET v == rq.headers[k]
        header == rq.actual[1].header
        got == << "           got: [" >> \o HeaderDump(header, dumpOrder) \o << "           ]" >>
    IN  IF k \in DOMAIN header THEN <<>>
        ELSE IF v = <<>> THEN << "header not set: " \o k >> \o got
        ELSE << "header not set: " \o k \o ": " \o v[1] >> \o got

\* the body of the loop of checkHeadersExpectation for the expected key k
checkHeader(rq, k, dumpOrder) ==
    LET v == rq.headers[k]
        header == rq.actual[1].header
        present == k \in DOMAIN header
        avs == IF present THEN First(header[k]) ELSE ""
        got == << "           got: [" >> \o HeaderDump(header, dumpOrder) \o << "           ]" >>
    IN  IF ~present /\ v = <<>> THEN << "header not set: " \o k >> \o got
        ELSE IF ~present /\ v # <<>> THEN << "header not set: " \o k \o ": " \o v[1] >> \o got
        ELSE IF v # <<>> /\ avs # v[1]
        THEN << "expected header: " \o k \o ": " \o v[1],
                "   got         : " \o k \o ": " \o avs >>
        ELSE <<>>

\* av[0] aborts in the loop body for the expected key k: the key is present
\* with an empty value list, or it is absent and the dump meets such a key
IndexAborts(rq, k) ==
    LET header == rq.actual[1].header
    IN  IF k \in DOMAIN header THEN header[k] = <<>>
        ELSE \E x \in DOMAIN header : header[x] = <<>>

\* MockRequest.checkHeadersExpectation, the expected keys taken in the order
\* the map iteration yields them
RECURSIVE checkHeadersExpectation(_, _, _)
checkHeadersExpectation(rq, order, dumpOrder) ==
    IF order = <<>> THEN <<>>
    ELSE (IF Head(order) \in DOMAIN rq.headers
          THEN checkHeader(rq, Head(order), dumpOrder)
          ELSE <<>>) \o checkHeadersExpectation(rq, Tail(order), dumpOrder)

\* bytes.Split(b, []byte("\n")), each part as a string
RECURSIVE SplitLines(_)
SplitLines(b) ==
    IF \E i \in 1..Len(b) : b[i] = "\n"
    THEN LET i == CHOOSE j \in 1..Len(b) :
                     b[j] = "\n" /\ \A x \in 1..(j - 1) : b[x] # "\n"
         IN  << Str(SubSeq(b, 1, i - 1)) >> \o SplitLines(SubSeq(b, i + 1, Len(b)))
    ELSE << Str(b) >>

\* the lines of a body in the report of checkBodyExpectation
BodyLines(b) == [i \in 1..Len(SplitLines(b)) |-> "         |" \o SplitLines(b)[i]]

\* faulty variant of checkBodyExpectation: bodies of the same length pass
checkBodyComparesLength(rq, actual) ==
    IF rq.body = <<>> \/ Len(rq.body[1]) = Len(actual) THEN <<>>
    ELSE IF Len(rq.body[1]) = 0
    THEN << "expected: <no body>", "   got  : " \o Fmtd(Len(actual)) \o " bytes" >>
    ELSE << "expected: " \o Fmtd(Len(rq.body[1])) \o " bytes", "   got  : <no body>" >>

\* MockRequest.checkBodyExpectation on the bytes read from the actual request
checkBodyExpectation(rq, actual) ==
    LET expected == rq.body[1]
    IN  IF rq.body = <<>> THEN <<>>
        ELSE IF expected = actual THEN <<>>
        ELSE IF Len(expected) = 0
        THEN << "expected: <no body>", "   got  : " \o Fmtd(Len(actual)) \o " bytes" >>
        ELSE IF Len(actual) = 0
        THEN << "expected: " \o Fmtd(Len(expected)) \o " bytes", "   got  : <no body>" >>
        ELSE << "request body differs from expected", "   got   :_________" >>
             \o BodyLines(actual)
             \o << "   wanted:_________" >>
             \o BodyLines(expected)

\* faulty variant of notExpectedReport: a request that arrived is not reported
notExpectedReportSilent(rq) == <<>>

\* the case !rq.isExpected of checkExpectations
notExpectedReport(rq) ==
    IF rq.actual = <<>> THEN <<>>
    ELSE << "  got: " \o rq.actual[1].method \o " " \o rq.actual[1].url >>

\* MockRequest.checkExpectations: the report, whether the check aborts, and
\* the expectation afterwards (the body of its actual request has been read
\* and closed when a body was expected)
checkExpectations(rq, order, dumpOrder) ==
    LET checked == rq.isExpected /\ rq.actual # <<>>
        aborts == /\ checked
                  /\ \/ \E k \in DOMAIN rq.headers : IndexAborts(rq, k)
                     \/ rq.body # <<>> /\ rq.actual[1].body.nil
        reads == checked /\ ~aborts /\ rq.body # <<>>
        actual == IF reads THEN ReadRequestBody(rq.actual[1].body) ELSE <<>>
    IN  [rpt |-> IF ~rq.isExpected THEN notExpectedReport(rq)
                 ELSE IF rq.actual = <<>> THEN << "  got: <no request>" >>
                 ELSE IF aborts THEN <<>>
                 ELSE checkMethodExpectation(rq)
                      \o checkURLExpectation(rq)
                      \o checkHeadersExpectation(rq, order, dumpOrder)
                      \o checkBodyExpectation(rq, actual),
         aborts |-> aborts,
         after |-> IF reads
                   THEN [rq EXCEPT !.actual = << [rq.actual[1] EXCEPT !.body = Consumed(@)] >>]
                   ELSE rq]

\* the entries ExpectationsWereMet adds for one expectation with report rpt
ExpectationErrors(rq, rpt) ==
    IF Len(rpt) > 0
    THEN << "request #" \o Fmtd(rq.index + 1) \o ": expecting: "
               \o (IF rq.method # <<>> THEN rq.method[1] ELSE "<ANY METHOD>")
               \o " " \o rq.url >>
         \o [i \in 1..Len(rpt) |-> "   " \o rpt[i]]
    ELSE <<>>

\* faulty variant of CheckFrom: the loop ends at the first expectation that
\* has a report
RECURSIVE CheckFromStopsAtFirst(_, _, _, _)
CheckFromStopsAtFirst(exps, i, order, dumpOrder) ==
    IF i > Len(exps) THEN [errors |-> <<>>, aborts |-> FALSE, exps |-> exps]
    ELSE LET c == checkExpectations(exps[i], order, dumpOrder)
             done == [exps EXCEPT ![i] = c.after]
             rest == CheckFromStopsAtFirst(done, i + 1, order, dumpOrder)
         IN  IF c.aborts THEN [errors |-> <<>>, aborts |-> TRUE, exps |-> exps]
             ELSE IF Len(c.rpt) > 0
             THEN [errors |-> ExpectationErrors(exps[i], c.rpt), aborts |-> FALSE, exps |-> done]
             ELSE rest

\* the first loop of ExpectationsWereMet from expectation i on: the entries,
\* whether a check aborts, and the expectations afterwards
RECURSIVE CheckFrom(_, _, _, _)
CheckFrom(exps, i, order, dumpOrder) ==
    IF i > Len(exps) THEN [errors |-> <<>>, aborts |-> FALSE, exps |-> exps]
    ELSE LET c == checkExpectations(exps[i], order, dumpOrder)
             done == [exps EXCEPT ![i] = c.after]
             rest == CheckFrom(done, i + 1, order, dumpOrder)
         IN  IF c.aborts THEN [errors |-> <<>>, aborts |-> TRUE, exps |-> exps]
             ELSE [errors |-> ExpectationErrors(exps[i], c.rpt) \o rest.errors,
                   aborts |-> rest.aborts,
                   exps |-> rest.exps]

\* the second loop of ExpectationsWereMet: one entry for every unexpected request
UnexpectedErrors(exps, unexp) ==
    [ix \in 1..Len(unexp) |->
        "request #" \o Fmtd(Len(exps) + (ix - 1) + 1) \o ": unexpected: "
           \o unexp[ix].method \o " " \o unexp[ix].url]

\* the value ExpectationsWereMet returns for the entries errs
MockExpectationsError(name, errs, fresh) ==
    [called |-> TRUE, isNil |-> Len(errs) = 0,
     name |-> IF Len(errs) = 0 THEN "" ELSE name,
     errors |-> errs,
     fresh |-> fresh]

\* no body of an actual request has been read
Unread(exps) ==
    \A i \in 1..Len(exps) : exps[i].actual # <<>> => ~exps[i].actual[1].body.eof

\* a mockResponse
MockResponse(body, headers, statusCode, e) ==
    [body |-> body, headers |-> headers, statusCode |-> statusCode, Err |-> e]

\* the body of the response the recorder built from the bytes written
RecorderBody(data) == [kind |-> "recorder", data |-> data]

\* http.DetectContentType of the response bodies of the model
ContentType == "text/plain; charset=utf-8"

\* faulty variant of SynthesizedBody: the recorder's stream is returned when
\* nothing was written
SynthesizedBodyKeepsStream(data) == RecorderBody(data)

\* the body of the response defaultResponse returns: http.NoBody in place of
\* the recorder's stream when there is no configured body
SynthesizedBody(data) == IF Len(data) = 0 THEN NoBody ELSE RecorderBody(data)

\* mockClient.defaultResponse(expected): the response and its headers, the
\* error, and whether the call aborts.  The recorder's WriteHeader aborts on a
\* status code outside 100..999; its Write adds a Content-Type header when the
\* header has not been written yet and none is set.  (writeBody on a recorder
\* does not fail.)
defaultResponse(expected) ==
    IF expected.Response = <<>>
    THEN [isNil |-> FALSE, resp |-> Response(StatusOK, UnknownLength, SynthesizedBody(<<>>)),
          header |-> NoHeader, err |-> NilErr, aborts |-> FALSE]
    ELSE LET r == expected.Response[1]
             configured == [k \in DOMAIN r.headers |-> <<r.headers[k]>>]
             sc == IF r.statusCode # <<>> THEN r.statusCode[1] ELSE StatusOK
             sniffed == /\ r.statusCode = <<>>
                        /\ Len(r.body) > 0
                        /\ "Content-Type" \notin DOMAIN r.headers
         IN  [isNil |-> FALSE,
              resp |-> Response(sc, UnknownLength, SynthesizedBody(r.body)),
              header |-> IF sniffed THEN SetHeader(configured, "Content-Type", <<ContentType>>)
                         ELSE configured,
              err |-> r.Err,
              aborts |-> r.statusCode # <<>> /\ (sc < 100 \/ sc > 999)]

(* operations of the mock *)

\* mock.Expect(method, path)
Expect(method, path) ==
    /\ mockpc = "run"
    /\ IF next > 0
       THEN /\ mockpc' = "panic"
            /\ fault' = WrapAll(<<MockName, ": ">>, <<ErrCannotChangeExpectations>>)
            /\ UNCHANGED <<expectations, next>>
       ELSE /\ expectations' = Append(expectations,
                                      MockRequest(Len(expectations), method,
                                                  JoinPath(Hostname, path)))
            /\ next' = IF Len(expectations) + 1 = 1 THEN firstExpectedRequest ELSE next
            /\ UNCHANGED <<mockpc, fault>>
    /\ UNCHANGED <<vars, auxVars>>
    /\ doResult' = NilResult
    /\ verdict' = NoVerdict
    /\ UNCHANGED <<unexpected, received, wasReset>>
    /\ UNCHANGED <<vars, auxVars>>

\* WillNotBeCalled() on the i-th registered expectation
WillNotBeCalled(i) ==
    /\ mockpc = "run"
    /\ i \in 1..Len(expectations)
    /\ expectations' = [expectations EXCEPT ![i].isExpected = FALSE]
    /\ doResult' = NilResult
    /\ verdict' = NoVerdict
    /\ UNCHANGED <<unexpected, next, received, mockpc, fault, wasReset>>
    /\ UNCHANGED <<vars, auxVars>>

\* WithNonCanonicalHeader(k, v...) on the i-th registered expectation; v is
\* the list of values given
WithNonCanonicalHeader(i, k, v) ==
    /\ mockpc = "run"
    /\ i \in 1..Len(expectations)
    /\ expectations' = [expectations EXCEPT
                           ![i].headers = SetHeader(@, k, IF Len(v) > 0 THEN <<v[1]>> ELSE <<>>)]
    /\ doResult' = NilResult
    /\ verdict' = NoVerdict
    /\ UNCHANGED <<unexpected, next, received, mockpc, fault, wasReset>>
    /\ UNCHANGED <<vars, auxVars>>

\* WithBody(b) on the i-th registered expectation
WithBody(i, b) ==
    /\ mockpc = "run"
    /\ i \in 1..Len(expectations)
    /\ expectations' = [expectations EXCEPT ![i].body = <<b>>]
    /\ doResult' = NilResult
    /\ verdict' = NoVerdict
    /\ UNCHANGED <<unexpected, next, received, mockpc, fault, wasReset>>
    /\ UNCHANGED <<vars, auxVars>>

\* WillRespond() on the i-th registered expectation
WillRespond(i) ==
    /\ mockpc = "run"
    /\ i \in 1..Len(expectations)
    /\ expectations' = [expectations EXCEPT
                           ![i].Response = << MockResponse(<<>>, NoHeader, <<>>, NilErr) >>]
    /\ doResult' = NilResult
    /\ verdict' = NoVerdict
    /\ UNCHANGED <<unexpected, next, received, mockpc, fault, wasReset>>
    /\ UNCHANGED <<vars, auxVars>>

\* mockResponse.WithStatusCode(sc) on the mockResponse of the i-th expectation (the value
\* WillRespond() returned, or the exported field Response)
ResponseWithStatusCode(i, sc) ==
    /\ mockpc = "run"
    /\ i \in 1..Len(expectations)
    /\ expectations[i].Response # <<>>
    /\ expectations' = [expectations EXCEPT ![i].Response[1].statusCode = <<sc>>]
    /\ doResult' = NilResult
    /\ verdict' = NoVerdict
    /\ UNCHANGED <<unexpected, next, received, mockpc, fault, wasReset>>
    /\ UNCHANGED <<vars, auxVars>>

\* mockResponse.WithBody(b) on the mockResponse of the i-th expectation (the value
\* WillRespond() returned, or the exported field Response)
ResponseWithBody(i, b) ==
    /\ mockpc = "run"
    /\ i \in 1..Len(expectations)
    /\ expectations[i].Response # <<>>
    /\ expectations' = [expectations EXCEPT ![i].Response[1].body = b]
    /\ doResult' = NilResult
    /\ verdict' = NoVerdict
    /\ UNCHANGED <<unexpected, next, received, mockpc, fault, wasReset>>
    /\ UNCHANGED <<vars, auxVars>>

\* mockResponse.WithNonCanonicalHeader(k, v) on the mockResponse of the i-th expectation (the value
\* WillRespond() returned, or the exported field Response)
ResponseWithNonCanonicalHeader(i, k, v) ==
    /\ mockpc = "run"
    /\ i \in 1..Len(expectations)
    /\ expectations[i].Response # <<>>
    /\ expectations' = [expectations EXCEPT ![i].Response[1].headers = SetHeader(@, k, v)]
    /\ doResult' = NilResult
    /\ verdict' = NoVerdict
    /\ UNCHANGED <<unexpected, next, received, mockpc, fault, wasReset>>
    /\ UNCHANGED <<vars, auxVars>>

\* WillReturnError(e) on the i-th registered expectation
WillReturnError(i, e) ==
    /\ mockpc = "run"
    /\ i \in 1..Len(expectations)
    /\ expectations' = [expectations EXCEPT
                           ![i].Response = << MockResponse(<<>>, NoHeader, <<>>, e) >>]
    /\ doResult' = NilResult
    /\ verdict' = NoVerdict
    /\ UNCHANGED <<unexpected, next, received, mockpc, fault, wasReset>>
    /\ UNCHANGED <<vars, auxVars>>

\* faulty variant of Advance: the cursor stays where it is
AdvanceStays(cursor) == cursor

\* faulty variant of Advance: the cursor skips an expectation
AdvanceSkips(cursor) == cursor + 2

\* faulty variant of Advance: the cursor goes back to the first expectation
AdvanceRewinds(cursor) == firstExpectedRequest

\* mock.next++ in mock.Do
Advance(cursor) == cursor + 1

\* faulty variant of RecordUnexpected: the request is dropped
RecordUnexpectedDrops(unexp, rq) == unexp

\* faulty variant of RecordUnexpected: the request is put in front of the list
RecordUnexpectedFirst(unexp, rq) == <<rq>> \o unexp

\* mock.unexpected = append(mock.unexpected, rq) in mock.Do
RecordUnexpected(unexp, rq) == Append(unexp, rq)

\* faulty variant of Responds: the configured response is returned for a
\* request that was not expected, too
RespondsAlways(expected) == TRUE

\* faulty variant of Responds: every request is treated as not expected
RespondsNever(expected) == FALSE

\* faulty variant of Responds: only a request that was not expected gets the
\* configured response
RespondsToUnexpectedOnly(expected) == ~expected.isExpected

\* the switch of mock.Do: the request gets the response of its expectation
\* unless the expectation is marked as not expected
Responds(expected) == expected.isExpected

\* mock.Do(rq): what it does to the mock
MockDoEffect(rq) ==
    LET matched == next # noExpectedRequests /\ next < Len(expectations)
        expected == expectations[next + 1]
        responds == matched /\ Responds(expected)
        d == defaultResponse(expected)
    IN  /\ mockpc = "run"
        /\ received' = Append(received, [rq |-> rq, registered |-> Len(expectations)])
        /\ IF matched
           THEN /\ expectations' = [expectations EXCEPT ![next + 1].actual = <<rq>>]
                /\ next' = Advance(next)
           ELSE UNCHANGED <<expectations, next>>
        /\ IF responds
           THEN /\ doResult' = IF d.aborts THEN NilResult
                                ELSE [isNil |-> d.isNil, resp |-> d.resp,
                                      header |-> d.header, err |-> d.err]
                /\ mockpc' = IF d.aborts THEN "panic" ELSE mockpc
                /\ UNCHANGED unexpected
           ELSE /\ unexpected' = RecordUnexpected(unexpected, rq)
                /\ doResult' = [isNil |-> TRUE, resp |-> NilResponse, header |-> NoHeader,
                                err |-> ErrUnexpectedRequest]
                /\ UNCHANGED mockpc
        /\ verdict' = NoVerdict
        /\ UNCHANGED <<fault, wasReset>>

\* mock.Do(rq), called directly
MockDo(rq) ==
    /\ MockDoEffect(rq)
    /\ UNCHANGED <<vars, auxVars>>

\* mock.ExpectationsWereMet(); order and dumpOrder are the orders in which the
\* iterations over the expected and over the actual headers yield the keys
ExpectationsWereMet(order, dumpOrder) ==
    LET c == CheckFrom(expectations, 1, order, dumpOrder)
        errs == c.errors \o UnexpectedErrors(expectations, unexpected)
    IN  /\ mockpc = "run"
        /\ expectations' = c.exps
        /\ IF c.aborts
           THEN /\ mockpc' = "panic"
                /\ verdict' = NoVerdict
           ELSE /\ verdict' = MockExpectationsError(MockName, errs, Unread(expectations))
                /\ UNCHANGED mockpc
        /\ doResult' = NilResult
        /\ UNCHANGED <<unexpected, next, received, fault, wasReset>>
        /\ UNCHANGED <<vars, auxVars>>

\* faulty variant of Reset: the unexpected requests and the cursor are kept
ResetKeepsUnexpected ==
    /\ mockpc = "run"
    /\ expectations' = <<>>
    /\ received' = <<>>
    /\ doResult' = NilResult
    /\ verdict' = NoVerdict
    /\ wasReset' = TRUE
    /\ UNCHANGED <<unexpected, next, mockpc, fault>>
    /\ UNCHANGED <<vars, auxVars>>

\* mock.Reset()
Reset ==
    /\ mockpc = "run"
    /\ expectations' = <<>>
    /\ unexpected' = <<>>
    /\ next' = noExpectedRequests
    /\ received' = <<>>
    /\ doResult' = NilResult
    /\ verdict' = NoVerdict
    /\ wasReset' = TRUE
    /\ UNCHANGED <<mockpc, fault>>
    /\ UNCHANGED <<vars, auxVars>>

(* inputs of the mock *)

MockMethods == {MethodGet, MethodPost}

HeaderKeys == <<"X-Key", "X-Other">>

\* the orders in which a map iteration can yield the header keys
KeyOrders == {<<HeaderKeys[1], HeaderKeys[2]>>, <<HeaderKeys[2], HeaderKeys[1]>>}

\* the requests sent to a mock with several expectations
MockRequests ==
    { Request(MethodGet, JoinPath(Hostname, "/a"), NoHeader, NilBody),
      Request(MethodPost, JoinPath(Hostname, "/a"), NoHeader, NilBody),
      Request(MethodGet, JoinPath(Hostname, "/b"), NoHeader, RequestBody(<<>>)),
      Request(MethodGet, JoinPath(Hostname, "/a"),
              SetHeader(NoHeader, HeaderKeys[1], <<"v1">>), RequestBody(<<"a">>)) }

\* the header maps of the requests sent to a mock with one expectation
CheckHeaders ==
    { SetHeader(SetHeader(NoHeader, HeaderKeys[1], <<"v1">>), HeaderKeys[2], <<"v1">>) } \cup
    { SetHeader(NoHeader, HeaderKeys[2], <<"v1">>), NoHeader } \cup
    { SetHeader(NoHeader, HeaderKeys[1], v) : v \in {<<>>, <<"v1">>, <<"v2">>, <<"v1", "v2">>} }

CheckBodies == {<<>>, <<"a">>, <<"b">>, <<"a", "\n", "b">>}

\* the requests sent to a mock with one expectation
CheckRequests ==
    { Request(m, JoinPath(Hostname, p), h, b) :
        m \in MockMethods, p \in {"/a", "/b"}, h \in CheckHeaders,
        b \in {NilBody} \cup {RequestBody(d) : d \in CheckBodies} }

\* the mock on its own: the client is left as it was constructed
InitMock == Init /\ maxRetries = 0

\* a mock with up to MaxExpectations expectations, of which the first may
\* expect a header and a body, receiving up to MaxMockRequests requests
NextMock ==
    \/ Len(expectations) < MaxExpectations /\ \E m \in MockMethods : Expect(m, "/a")
    \/ received = <<>> /\ WillNotBeCalled(Len(expectations))
    \/ received = <<>> /\ Len(expectations) = 1
          /\ WithNonCanonicalHeader(1, HeaderKeys[1], <<"v1">>)
    \/ received = <<>> /\ Len(expectations) = 1 /\ WithBody(1, <<"a">>)
    \/ Len(received) < MaxMockRequests /\ \E rq \in MockRequests : MockDo(rq)
    \/ \E order \in KeyOrders : ExpectationsWereMet(order, order)
    \/ Reset

SpecMock == InitMock /\ [][NextMock]_allVars

\* a mock with one expectation of any configuration, receiving one request
NextCheck ==
    \/ expectations = <<>> /\ \E m \in MockMethods : Expect(m, "/a")
    \/ received = <<>> /\ WillNotBeCalled(1)
    \/ received = <<>> /\ \E i \in 1..Len(HeaderKeys), v \in {<<>>, <<"v1">>, <<"v1", "v2">>} :
                             WithNonCanonicalHeader(1, HeaderKeys[i], v)
    \/ received = <<>> /\ \E b \in CheckBodies : WithBody(1, b)
    \/ received = <<>> /\ \E rq \in CheckRequests : MockDo(rq)
    \/ \E order \in KeyOrders, dumpOrder \in KeyOrders : ExpectationsWereMet(order, dumpOrder)

SpecCheck == InitMock /\ [][NextCheck]_allVars

\* a mock whose only expectation was built as a struct literal, as the tests
\* of the package build it: the method may be nil and the url blank, and the
\* cursor has its zero value
InitLiteral ==
    /\ InitClient
    /\ maxRetries = 0
    /\ expectations \in
          { << [MockRequest(0, MethodGet, u) EXCEPT !.method = m] >> :
               m \in {<<>>, <<MethodGet>>},
               u \in {"", JoinPath(Hostname, "/a"), JoinPath(Hostname, "/a?x=1")} }
    /\ unexpected = <<>>
    /\ next = firstExpectedRequest
    /\ received = <<>>
    /\ doResult = NilResult
    /\ verdict = NoVerdict
    /\ mockpc = "run"
    /\ fault = NilErr
    /\ wasReset = FALSE

\* requests with any method and URL, with or without a query string, sent to
\* that mock
NextLiteral ==
    \/ Len(received) < MaxMockRequests
          /\ \E m \in MockMethods :
                \E u \in {"", JoinPath(Hostname, "/a"), JoinPath(Hostname, "/a?x=1")} :
                   MockDo(Request(m, u, NoHeader, NilBody))
    \/ \E order \in KeyOrders : ExpectationsWereMet(order, order)

SpecLiteral == InitLiteral /\ [][NextLiteral]_allVars

\* the error given to WillReturnError
ConfiguredErr == Sentinel("response error")

\* a mock with one expectation and any response configuration, receiving up
\* to MaxMockRequests requests
NextRespond ==
    \/ expectations = <<>> /\ \E m \in MockMethods : Expect(m, "/a")
    \/ received = <<>> /\ WillNotBeCalled(1)
    \/ received = <<>> /\ WillRespond(1)
    \/ received = <<>> /\ \E sc \in {StatusNotFound, 0} : ResponseWithStatusCode(1, sc)
    \/ received = <<>> /\ \E b \in Bodies : ResponseWithBody(1, b)
    \/ received = <<>> /\ ResponseWithNonCanonicalHeader(1, HeaderKeys[1], "v1")
    \/ received = <<>> /\ WillReturnError(1, ConfiguredErr)
    \/ Len(received) < MaxMockRequests /\ \E rq \in MockRequests : MockDo(rq)
    \/ \E order \in KeyOrders : ExpectationsWereMet(order, order)

SpecRespond == InitMock /\ [][NextRespond]_allVars

(* ----------------------------- properties ------------------------------ *)

\* the transport failed on every invocation made so far
AllFailed == calls # <<>> /\ \A i \in 1..Len(calls) : ~calls[i].ok

\* the last invocation of the transport returned a response
LastOk == calls # <<>> /\ calls[Len(calls)].ok

\* client.Do has returned
Returned == pc = "done"

\* the acceptable status codes client.do works with
AcceptSet == {accept.elems[i] : i \in 1..Len(accept.elems)}

\* the status code the transport returned on its last invocation
TransportStatus == calls[Len(calls)].statusCode

\* the directive header hdr of the request handed to client.Do is the literal "true"
DirectiveIsTrue(hdr) ==
    hdr \in DOMAIN called /\ called[hdr] # <<>> /\ called[hdr][1] = TrueLit

\* C1: against a transport that always fails, with effective max-retries N >= 1
\* the transport is invoked exactly N+1 times and the returned error matches
\* ErrMaxRetriesExceeded and the error of the last attempt (and of no earlier
\* attempt); with N = 0 it is invoked once and its error is returned without
\* ErrMaxRetriesExceeded.  The transport is never invoked more than N+1 times.
C1_RetryCounting ==
    /\ pc \in {"send", "done"} => Len(calls) <= retries + 1
    /\ Returned /\ AllFailed =>
          /\ Len(calls) = retries + 1
          /\ Is(err, TransportErr(Len(calls)))
          /\ \A k \in 1..(Len(calls) - 1) : ~Is(err, TransportErr(k))
          /\ Is(err, ErrMaxRetriesExceeded) <=> retries >= 1

C1_Witness ==
    /\ Returned /\ AllFailed
    /\ retries = MaxClientRetries
    /\ Len(calls) = MaxClientRetries + 1
    /\ Is(err, ErrMaxRetriesExceeded)

\* C2: a max-retries directive r written by request.MaxRetries replaces the
\* client's maxRetries c, whichever is larger: against a transport that always
\* fails exactly r+1 attempts are made; without the directive exactly c+1.
C2_RetryOverride ==
    /\ pc = "send" \/ (Returned /\ calls # <<>>) =>
          /\ \A r \in given.retries : retries = r
          /\ MaxRetriesHeader \notin DOMAIN called => retries = maxRetries
    /\ Returned /\ AllFailed =>
          /\ \A r \in given.retries : Len(calls) = r + 1
          /\ MaxRetriesHeader \notin DOMAIN called => Len(calls) = maxRetries + 1

C2_Witness ==
    /\ Returned /\ AllFailed
    /\ maxRetries = 2
    /\ given.retries = {1}
    /\ Len(calls) = 2

\* C3: the retry loop stops at the first response: no invocation follows a
\* successful one, at most N failures precede it, and the outcome then depends
\* on the response alone: no retries-exceeded error, no transport error, and
\* for an acceptable status with a readable non-empty body the body is
\* materialized and the error is nil.
C3_StopsAtFirstSuccess ==
    /\ \A i \in 1..(Len(calls) - 1) : ~calls[i].ok
    /\ LastOk => Returned
    /\ Returned /\ LastOk =>
          /\ Len(calls) - 1 <= retries
          /\ ~resp.isNil
          /\ ~Is(err, ErrMaxRetriesExceeded)
          /\ \A k \in 1..Len(calls) : ~Is(err, TransportErr(k))
          /\ \/ err = NilErr
             \/ Is(err, ErrUnexpectedStatusCode)
             \/ Is(err, ErrNoResponseBody)
             \/ Is(err, ReadErr)
          /\ (TransportStatus \in AcceptSet /\ ~stream /\ ~tbody.fails /\ tbody.data # <<>>) =>
                /\ err = NilErr
                /\ resp.statusCode = TransportStatus
                /\ resp.body = MemoryBody(tbody.data)

C3_Witness ==
    /\ Returned /\ LastOk
    /\ retries = 2
    /\ Len(calls) = 3
    /\ resp.statusCode = StatusNotFound
    /\ resp.body.kind = "memory"
    /\ err = NilErr

\* C4: a response whose status code is in the effective acceptable set (only
\* 200 when the request has no accept-status directive) gets no
\* unexpected-status error, and no error at all unless the body handling
\* reports one; a response with any other status gets the unexpected-status
\* error and is returned with it, its status code intact.
C4_StatusAcceptance ==
    Returned /\ LastOk =>
       /\ AcceptStatusHeader \notin DOMAIN called => AcceptSet = {StatusOK}
       /\ TransportStatus \in AcceptSet =>
             /\ ~Is(err, ErrUnexpectedStatusCode)
             /\ err # NilErr => Is(err, ErrNoResponseBody) \/ Is(err, ReadErr)
             /\ (stream \/ (~tbody.fails /\ (tbody.data # <<>> \/ ~bodyRequired))) =>
                   err = NilErr
       /\ TransportStatus \notin AcceptSet =>
             /\ Is(err, ErrUnexpectedStatusCode)
             /\ ~resp.isNil
             /\ resp.statusCode = TransportStatus

C4_Witness ==
    /\ Returned /\ LastOk
    /\ AcceptSet = {StatusOK, StatusNotFound}
    /\ TransportStatus = StatusUnauthorized
    /\ Is(err, ErrUnexpectedStatusCode)
    /\ resp.statusCode = StatusUnauthorized

\* C5: AcceptStatus accumulates: for a request that started without the
\* directive, after any number of applications with status codes the set
\* client.do works with is {200} and every code of every application, and the
\* directive is never rejected.
C5_AcceptStatusAccumulation ==
    (pc \in {"send", "done"} /\ ~given.rawAccept /\ given.codes \subseteq Nat) =>
       /\ ~Is(err, ErrInvalidJSON)
       /\ (pc = "send" \/ calls # <<>>) => AcceptSet = {StatusOK} \cup given.codes

C5_Witness ==
    /\ pc = "send"
    /\ ~given.rawAccept
    /\ given.codes = {StatusNotFound, StatusUnauthorized}
    /\ AcceptSet = {StatusOK, StatusUnauthorized, StatusNotFound}

\* text that is an integer: an optional sign and decimal digits
IsIntegerText(s) ==
    LET digits == IF s # <<>> /\ s[1] \in {"+", "-"} THEN Tail(s) ELSE s
    IN  AllDigits(digits)

\* text that is a JSON array of integers
IsIntegerArrayText(s) ==
    /\ Len(s) >= 2
    /\ s[1] = "["
    /\ s[Len(s)] = "]"
    /\ LET inner == SubSeq(s, 2, Len(s) - 1)
       IN  inner = <<>> \/ \A i \in 1..Len(SplitComma(inner)) : IsJSONInt(SplitComma(inner)[i])

\* the reserved header hdr of the request handed to client.Do has a value that
\* is malformed
Malformed(hdr) ==
    /\ hdr \in DOMAIN called
    /\ called[hdr] # <<>>
    /\ \/ hdr = MaxRetriesHeader /\ ~IsIntegerText(called[hdr][1])
       \/ hdr = AcceptStatusHeader /\ ~IsIntegerArrayText(called[hdr][1])

\* C6: if a reserved directive header is present but malformed, client.Do
\* returns a nil response and an ErrInvalidRequestHeader error that names every
\* malformed header, and the transport is never invoked.  (Stated for the
\* calls of client.Do in which directive parsing has returned.)
C6_MalformedDirective ==
    \A hdr \in DirectiveKeys :
       (pc \in {"send", "done"} /\ Malformed(hdr)) =>
          /\ Returned
          /\ resp.isNil
          /\ Is(err, ErrInvalidRequestHeader)
          /\ \E i \in 1..Len(err.text) : err.text[i] = hdr
          /\ calls = <<>>

\* C7: no invocation of the transport sees a reserved directive header, and
\* none is left on the request once directive parsing has returned, with or
\* without an error.
C7_DirectiveStripping ==
    /\ \A i \in 1..Len(calls) : calls[i].keys \cap DirectiveKeys = {}
    /\ pc \in {"send", "done"} => DOMAIN rqHeader \cap DirectiveKeys = {}

C7_Witness ==
    /\ Returned
    /\ calls = <<>>
    /\ Is(err, ErrInvalidRequestHeader)
    /\ Is(err, StrconvErrSyntax)
    /\ {AcceptStatusHeader, ResponseBodyRequiredHeader, StreamResponseHeader} \subseteq DOMAIN called
    /\ DOMAIN rqHeader = {}

\* C8: without streaming, an acceptable response with a readable non-empty
\* body B is returned with content length len(B) and a body that yields
\* exactly B; the transport's stream has been read to the end and closed.
C8_BodyRoundTrip ==
    (/\ Returned /\ LastOk
     /\ ~DirectiveIsTrue(StreamResponseHeader)
     /\ TransportStatus \in AcceptSet
     /\ ~tbody.fails
     /\ tbody.data # <<>>) =>
       /\ err = NilErr
       /\ ~resp.isNil
       /\ resp.contentLength = Len(tbody.data)
       /\ resp.body = MemoryBody(tbody.data)
       /\ tbody.eof
       /\ tbody.closed

C8_Witness ==
    /\ Returned /\ LastOk
    /\ ~DirectiveIsTrue(StreamResponseHeader)
    /\ tbody.data = <<"a">>
    /\ resp.contentLength = 1
    /\ resp.body = MemoryBody(<<"a">>)
    /\ tbody.closed

\* C9: without streaming, an acceptable response with a readable empty body
\* is returned with content length 0 and the NoBody sentinel; the error is
\* ErrNoResponseBody when the response-body-required directive is the literal
\* "true" and nil otherwise.  A non-empty body never gives that error.
C9_EmptyBody ==
    /\ (/\ Returned /\ LastOk
        /\ ~DirectiveIsTrue(StreamResponseHeader)
        /\ TransportStatus \in AcceptSet
        /\ ~tbody.fails
        /\ tbody.data = <<>>) =>
          /\ ~resp.isNil
          /\ resp.contentLength = 0
          /\ resp.body = NoBody
          /\ DirectiveIsTrue(ResponseBodyRequiredHeader) => Is(err, ErrNoResponseBody)
          /\ ~DirectiveIsTrue(ResponseBodyRequiredHeader) => err = NilErr
    /\ Is(err, ErrNoResponseBody) => LastOk /\ tbody.data = <<>>

C9_Witness ==
    /\ Returned /\ LastOk
    /\ DirectiveIsTrue(ResponseBodyRequiredHeader)
    /\ Is(err, ErrNoResponseBody)
    /\ ~resp.isNil
    /\ resp.body = NoBody

\* C10: with the stream-response directive "true" and an acceptable status,
\* client.Do returns the transport's response as it is: the body stream is
\* neither read nor closed nor replaced, the content length is the
\* transport's, and the error is nil even when a body is required and the
\* body is empty.
C10_StreamingBypass ==
    (/\ Returned /\ LastOk
     /\ DirectiveIsTrue(StreamResponseHeader)
     /\ TransportStatus \in AcceptSet) =>
       /\ err = NilErr
       /\ resp = Response(TransportStatus, UnknownLength, TransportBody)
       /\ ~tbody.eof
       /\ ~tbody.closed

C10_Witness ==
    /\ Returned /\ LastOk
    /\ DirectiveIsTrue(StreamResponseHeader)
    /\ DirectiveIsTrue(ResponseBodyRequiredHeader)
    /\ tbody.data = <<>>
    /\ ~tbody.fails
    /\ err = NilErr
    /\ resp.body = TransportBody

\* C11: if reading the response body fails, client.Do returns the response
\* with content length 0 and the NoBody sentinel, and an error that matches
\* ErrReadingResponseBody and the read error.
C11_BodyReadFailure ==
    (/\ Returned /\ LastOk
     /\ ~stream
     /\ TransportStatus \in AcceptSet
     /\ tbody.fails) =>
       /\ ~resp.isNil
       /\ resp.contentLength = 0
       /\ resp.body = NoBody
       /\ Is(err, ReadErr)
       /\ Is(err, ErrReadingResponseBody)

\* C20: with retries configured, a response whose status code is not
\* acceptable makes the client submit the request again: client.Do does not
\* return after a single invocation that got such a response.
C20_RetryOnUnacceptableStatus ==
    ~(/\ Returned /\ LastOk
      /\ retries >= 1
      /\ TransportStatus \notin AcceptSet
      /\ Len(calls) = 1)

(* properties of the mock *)

\* the request of the last call of mock.Do
LastReceived == received[Len(received)].rq

\* the step is a call of mock.Do
IsMockDo == Len(received') = Len(received) + 1

\* no expectation is left for the next request: none was configured, or the
\* cursor has passed the last one
Exhausted == next = noExpectedRequests \/ next >= Len(expectations)

\* C12: a request that mock.Do receives when no expectation was configured or
\* the cursor has passed the last expectation gets a nil response and
\* ErrUnexpectedRequest, adds exactly one entry, itself, to the unexpected
\* list, and is attached to no expectation.
C12_MockExhaustion ==
    [][(IsMockDo /\ Exhausted) =>
          /\ doResult'.isNil
          /\ Is(doResult'.err, ErrUnexpectedRequest)
          /\ unexpected' = Append(unexpected, received'[Len(received')].rq)
          /\ expectations' = expectations
          /\ next' = next]_allVars

C12_Witness ==
    /\ Len(expectations) = 1
    /\ Len(received) = 2
    /\ next = 1
    /\ doResult.isNil
    /\ Is(doResult.err, ErrUnexpectedRequest)
    /\ unexpected = <<LastReceived>>

\* every request arrived after all the expectations had been registered
InOrder == \A j \in 1..Len(received) : received[j].registered = Len(expectations)

\* the request rq as it is recorded on an expectation or in the unexpected
\* list, without the state of its body stream
SameRequest(a, rq) ==
    /\ a.method = rq.method
    /\ a.url = rq.url
    /\ a.header = rq.header
    /\ a.body.nil = rq.body.nil
    /\ a.body.data = rq.body.data

\* the request rq meets the method, URL, header and body constraints of the
\* expectation e
Satisfies(e, rq) ==
    /\ e.method # <<>> => rq.method = e.method[1]
    /\ rq.url = e.url
    /\ \A k \in DOMAIN e.headers :
          /\ k \in DOMAIN rq.header
          /\ e.headers[k] # <<>> => rq.header[k] # <<>> /\ rq.header[k][1] = e.headers[k][1]
    /\ e.body # <<>> => ~rq.body.nil /\ rq.body.data = e.body[1]

\* the entry at position j of the report opens the entries of request number
\* num, and the lines that follow it include the two given lines, in order
Reports(num, first, second) ==
    \E j \in 1..Len(verdict.errors), a, b \in 1..Len(verdict.errors) :
       /\ j < a /\ a + 1 = b
       /\ verdict.errors[j] = "request #" \o num \o ": expecting: "
                                 \o expectations[2].method[1] \o " " \o expectations[2].url
       /\ verdict.errors[a] = "   " \o first
       /\ verdict.errors[b] = "   " \o second

\* C13: with n expectations registered and then n requests submitted, request
\* i is attached to expectation i and to no other; ExpectationsWereMet then
\* returns nil exactly when every request meets the constraints of its
\* expectation and no request was recorded as unexpected; a second request
\* with the wrong method or URL is reported under "request #2" with the
\* expected and the actual method or URL.
C13_SequentialMatching ==
    (mockpc = "run" /\ InOrder /\ Len(received) = Len(expectations)) =>
       /\ \A i \in 1..Len(expectations) :
             /\ expectations[i].actual # <<>>
             /\ SameRequest(expectations[i].actual[1], received[i].rq)
       /\ (verdict.called /\ verdict.fresh) =>
             /\ verdict.isNil <=>
                   /\ \A i \in 1..Len(expectations) :
                         Satisfies(expectations[i], received[i].rq)
                   /\ unexpected = <<>>
             /\ (Len(expectations) >= 2 /\ expectations[2].isExpected) =>
                   /\ received[2].rq.method # expectations[2].method[1] =>
                         Reports("2", "expected method: " \o expectations[2].method[1],
                                      "   got         : " \o received[2].rq.method)
                   /\ received[2].rq.url # expectations[2].url =>
                         Reports("2", "expected url: " \o expectations[2].url,
                                      "   got      : " \o received[2].rq.url)

C13_Witness ==
    /\ InOrder
    /\ Len(expectations) = 2
    /\ Len(received) = 2
    /\ verdict.called /\ verdict.fresh
    /\ ~verdict.isNil
    /\ Satisfies(expectations[1], received[1].rq)
    /\ expectations[1].body # <<>>
    /\ expectations[1].headers # NoHeader
    /\ received[2].rq.method = MethodPost
    /\ verdict.errors[1] = "request #2: expecting: GET mock://hostname/a"
    /\ verdict.errors[2] = "   expected method: GET"
    /\ verdict.errors[3] = "      got         : POST"

\* a run of C13 in which ExpectationsWereMet returns nil
C13_WitnessMet ==
    /\ InOrder
    /\ Len(expectations) = 2
    /\ Len(received) = 2
    /\ verdict.called /\ verdict.fresh
    /\ verdict.isNil
    /\ expectations[1].body # <<>>

\* the entry that opens the report of the first expectation
Heading1 ==
    "request #1: expecting: " \o expectations[1].method[1] \o " " \o expectations[1].url

\* the entries of the report that come from the expectations
ExpectationEntries == SubSeq(verdict.errors, 1, Len(verdict.errors) - Len(unexpected))

\* C14: in ExpectationsWereMet a not-expected expectation without an actual
\* request is satisfied; a not-expected expectation with an actual request
\* fails and the report names the method and URL that arrived; an expected
\* expectation without an actual request fails with "<no request>"; only an
\* expected expectation with an actual request is put to the method, URL,
\* header and body checks.
C14_PresenceCheck ==
    (verdict.called /\ verdict.fresh /\ Len(expectations) = 1) =>
       LET e == expectations[1]
       IN  /\ (~e.isExpected /\ e.actual = <<>>) => ExpectationEntries = <<>>
           /\ (~e.isExpected /\ e.actual # <<>>) =>
                 ExpectationEntries =
                    << Heading1,
                       "     got: " \o e.actual[1].method \o " " \o e.actual[1].url >>
           /\ (e.isExpected /\ e.actual = <<>>) =>
                 ExpectationEntries = << Heading1, "     got: <no request>" >>
           /\ (e.isExpected /\ e.actual # <<>>) =>
                 /\ ExpectationEntries = <<>> <=> Satisfies(e, e.actual[1])
                 /\ \A j \in 1..Len(verdict.errors) :
                       verdict.errors[j] # "     got: <no request>"

C14_Witness ==
    /\ verdict.called
    /\ Len(expectations) = 1
    /\ ~expectations[1].isExpected
    /\ expectations[1].actual # <<>>
    /\ ~Satisfies(expectations[1], expectations[1].actual[1])
    /\ verdict.errors[2] = "     got: POST mock://hostname/b"

\* C15: once mock.Do has processed a request, no call of Expect before a Reset
\* adds an expectation: the list keeps its length until it is reset.
C15_ExpectationsFreeze ==
    [][received # <<>> => Len(expectations') <= Len(expectations)]_allVars

\* the step is the first call of mock.Reset
IsFirstReset == ~wasReset /\ wasReset'

\* C16: Reset returns the mock to the state NewMockClient creates it in: no
\* expectations, no unexpected requests, the cursor at the no-expectations
\* sentinel.  Afterwards ExpectationsWereMet returns nil while nothing else has
\* happened, Expect does not abort, the expectations are numbered from 1
\* again, and the first of them receives the next request.
C16_Reset ==
    /\ [][IsFirstReset =>
             /\ expectations' = <<>>
             /\ unexpected' = <<>>
             /\ next' = noExpectedRequests]_allVars
    /\ [](wasReset =>
             /\ (verdict.called /\ expectations = <<>> /\ received = <<>>) => verdict.isNil
             /\ received = <<>> => mockpc = "run"
             /\ \A i \in 1..Len(expectations) : expectations[i].index + 1 = i
             /\ (InOrder /\ expectations # <<>> /\ received # <<>>) =>
                   /\ expectations[1].actual # <<>>
                   /\ SameRequest(expectations[1].actual[1], received[1].rq))

C16_Witness ==
    /\ wasReset
    /\ InOrder
    /\ Len(expectations) = 1
    /\ expectations[1].index + 1 = 1
    /\ Len(received) = 1
    /\ expectations[1].actual # <<>>
    /\ unexpected = <<>>

\* the check of the expectation e fails
Failing(e) ==
    IF e.isExpected THEN e.actual = <<>> \/ ~Satisfies(e, e.actual[1])
    ELSE e.actual # <<>>

\* the entry that opens the report of the i-th expectation
Heading(i) ==
    "request #" \o Fmtd(i) \o ": expecting: "
       \o expectations[i].method[1] \o " " \o expectations[i].url

\* C17: ExpectationsWereMet does not stop at the first failure: the error it
\* returns has an entry with the request number for every expectation whose
\* check fails and for no other, followed by one entry for every unexpected
\* request, numbered after the expectations; it returns nil exactly when no
\* expectation fails and no request is unexpected.
C17_AggregatedVerification ==
    (verdict.called /\ verdict.fresh) =>
       /\ \A i \in 1..Len(expectations) :
             Failing(expectations[i]) <=>
                \E j \in 1..Len(ExpectationEntries) : ExpectationEntries[j] = Heading(i)
       /\ Len(verdict.errors) >= Len(unexpected)
       /\ \A ix \in 1..Len(unexpected) :
             verdict.errors[Len(ExpectationEntries) + ix] =
                "request #" \o Fmtd(Len(expectations) + ix) \o ": unexpected: "
                   \o unexpected[ix].method \o " " \o unexpected[ix].url
       /\ verdict.isNil <=>
             /\ \A i \in 1..Len(expectations) : ~Failing(expectations[i])
             /\ unexpected = <<>>
       /\ verdict.isNil <=> verdict.errors = <<>>

C17_Witness ==
    /\ verdict.called /\ verdict.fresh
    /\ Len(expectations) = 2
    /\ Failing(expectations[1])
    /\ Failing(expectations[2])
    /\ Len(unexpected) = 1
    /\ verdict.errors[1] = "request #1: expecting: GET mock://hostname/a"
    /\ \E j \in 2..Len(verdict.errors) :
          verdict.errors[j] = "request #2: expecting: POST mock://hostname/a"
    /\ verdict.errors[Len(verdict.errors)] = "request #3: unexpected: GET mock://hostname/b"

\* the dump of the headers of the request rq as the report shows it, the keys
\* in the given order
DumpLines(rq, dumpOrder) ==
    LET line(k) == IF k \in DOMAIN rq.header
                   THEN << "                " \o k \o ": " \o rq.header[k][1] >>
                   ELSE <<>>
    IN  << "              got: [" >> \o line(dumpOrder[1]) \o line(dumpOrder[2])
           \o << "              ]" >>

\* what the report is to say about the header key k of the expectation e
\* whose actual request is rq
HeaderEntries(e, rq, k, dumpOrder) ==
    IF k \notin DOMAIN e.headers THEN <<>>
    ELSE IF k \notin DOMAIN rq.header
    THEN (IF e.headers[k] = <<>>
          THEN << "   header not set: " \o k >>
          ELSE << "   header not set: " \o k \o ": " \o e.headers[k][1] >>)
         \o DumpLines(rq, dumpOrder)
    ELSE IF e.headers[k] # <<>> /\ rq.header[k][1] # e.headers[k][1]
    THEN << "   expected header: " \o k \o ": " \o e.headers[k][1],
            "      got         : " \o k \o ": " \o rq.header[k][1] >>
    ELSE <<>>

\* C18: for an expectation with an actual request whose method, URL and body
\* are in order, the report consists of exactly this for every expected
\* header key: "header not set: KEY" or "header not set: KEY: V" with a dump of
\* the actual headers when the key is absent, expected-vs-got when the first
\* value differs from the required V, and nothing when the key is present
\* and no value is required or the first value equals V.  Headers that the
\* expectation does not list add nothing.
C18_HeaderCheck ==
    (/\ verdict.called
     /\ Len(expectations) = 1
     /\ expectations[1].isExpected
     /\ expectations[1].actual # <<>>
     /\ expectations[1].method[1] = expectations[1].actual[1].method
     /\ expectations[1].url = expectations[1].actual[1].url
     /\ expectations[1].body = <<>>) =>
       LET e == expectations[1]
           rq == e.actual[1]
       IN  \E order \in KeyOrders, dumpOrder \in KeyOrders :
              LET entries == HeaderEntries(e, rq, order[1], dumpOrder)
                                \o HeaderEntries(e, rq, order[2], dumpOrder)
              IN  ExpectationEntries =
                     IF entries = <<>> THEN <<>> ELSE << Heading1 >> \o entries

C18_Witness ==
    /\ verdict.called
    /\ Len(expectations) = 1
    /\ expectations[1].headers = SetHeader(NoHeader, "X-Key", <<"v1">>)
    /\ verdict.errors = << "request #1: expecting: GET mock://hostname/a",
                           "   header not set: X-Key: v1",
                           "              got: [",
                           "                X-Other: v1",
                           "              ]" >>

\* a run of C18 in which a header that is present has the wrong value
C18_WitnessWrongValue ==
    /\ verdict.called
    /\ Len(expectations) = 1
    /\ verdict.errors = << "request #1: expecting: GET mock://hostname/a",
                           "   expected header: X-Key: v1",
                           "      got         : X-Key: v2" >>

\* C19: an expectation registered with Expect(method, path) and not configured
\* any further is satisfied by every request that uses the expected method,
\* whatever its URL, body and headers.
C19_MethodOnlyExpectation ==
    (/\ verdict.called
     /\ Len(expectations) = 1
     /\ expectations[1].isExpected
     /\ expectations[1].headers = NoHeader
     /\ expectations[1].body = <<>>
     /\ expectations[1].actual # <<>>
     /\ expectations[1].actual[1].method = expectations[1].method[1]) =>
       ExpectationEntries = <<>>

(* properties of the third group of claims *)

\* C21: no operation of the client or of the mock aborts, except Expect
\* called after requests have started: client.Do never ends in a panic, and
\* when an operation of the mock has aborted it was Expect, with
\* ErrCannotChangeExpectations.
C21_NoAbruptTermination ==
    /\ pc # "panic"
    /\ mockpc = "panic" => Is(fault, ErrCannotChangeExpectations)

\* the text in front of every error client.Do returns
ErrorContext == <<ClientName, ": ", Method, " ", URL, ": ">>

\* C22: every error client.Do returns begins with the client's name, the
\* request method and the URL, and still matches its kind and the error
\* underneath: ErrInvalidRequestHeader with the parse error, the error of the
\* last attempt (with ErrMaxRetriesExceeded when retries were configured),
\* ErrUnexpectedStatusCode, the read error, ErrNoResponseBody.
C22_ErrorContext ==
    (Returned /\ err # NilErr) =>
       /\ Len(err.text) > Len(ErrorContext)
       /\ SubSeq(err.text, 1, Len(ErrorContext)) = ErrorContext
       /\ calls = <<>> =>
             /\ Is(err, ErrInvalidRequestHeader)
             /\ \/ Is(err, StrconvErrSyntax)
                \/ Is(err, ErrInvalidJSON) /\ Is(err, JSONSyntaxError)
                \/ Is(err, ErrInvalidJSON) /\ Is(err, JSONUnmarshalTypeError)
       /\ AllFailed =>
             /\ Is(err, TransportErr(Len(calls)))
             /\ retries >= 1 => Is(err, ErrMaxRetriesExceeded)
       /\ (LastOk /\ TransportStatus \notin AcceptSet) => Is(err, ErrUnexpectedStatusCode)
       /\ (LastOk /\ TransportStatus \in AcceptSet /\ tbody.fails) => Is(err, ReadErr)
       /\ (LastOk /\ TransportStatus \in AcceptSet /\ ~tbody.fails) => Is(err, ErrNoResponseBody)

C22_Witness ==
    /\ Returned /\ AllFailed
    /\ retries = 1
    /\ SubSeq(err.text, 1, Len(ErrorContext)) = ErrorContext
    /\ Is(err, ErrMaxRetriesExceeded)
    /\ Is(err, TransportErr(2))

\* a run of C22 in which two malformed directives are reported in one error
C22_WitnessParse ==
    /\ Returned /\ calls = <<>>
    /\ SubSeq(err.text, 1, Len(ErrorContext)) = ErrorContext
    /\ Is(err, StrconvErrSyntax)
    /\ Is(err, JSONSyntaxError)

\* C23: the retry loop makes no difference between kinds of error: against a
\* transport that returns a cancellation error on every attempt, client.Do
\* returns only after N+1 invocations (N the effective max-retries), with an
\* error that matches context.Canceled and the error of the last attempt, and
\* ErrMaxRetriesExceeded when N >= 1.
C23_EveryErrorRetryable ==
    /\ (pc = "send" /\ AllFailed) => Len(calls) <= retries
    /\ (Returned /\ AllFailed) =>
          /\ Len(calls) = retries + 1
          /\ Is(err, Canceled)
          /\ Is(err, CanceledErr(Len(calls)))
          /\ Is(err, ErrMaxRetriesExceeded) <=> retries >= 1

C23_Witness ==
    /\ Returned /\ AllFailed
    /\ retries = MaxClientRetries
    /\ Len(calls) = MaxClientRetries + 1
    /\ Is(err, Canceled)
    /\ Is(err, ErrMaxRetriesExceeded)

\* the status codes listed in the accept-status directive of the request
\* handed to client.Do
DirectiveCodes ==
    LET listed == Unmarshal(called[AcceptStatusHeader][1], NilSlice, TRUE).val.elems
    IN  {listed[i] : i \in 1..Len(listed)}

\* C24: for a request whose accept-status directive has been parsed without
\* error, the acceptable set client.do works with contains 200 and every code
\* the directive lists.
C24_DefaultStatusKept ==
    (/\ pc = "send" \/ (Returned /\ calls # <<>>)
     /\ AcceptStatusHeader \in DOMAIN called) =>
       /\ StatusOK \in AcceptSet
       /\ DirectiveCodes \subseteq AcceptSet

\* the step is a call of mock.Reset that discards something
IsReset == Len(expectations') < Len(expectations) \/ Len(received') < Len(received)

\* C25: between Resets the cursor never moves back and moves one step at a
\* time: a request that finds an expectation at the cursor moves it by exactly
\* one and is attached to that expectation, which had no request yet; apart
\* from that the cursor only leaves the no-expectations sentinel for the first
\* expectation when Expect registers it; and an expectation that has received
\* a request keeps that request.
C25_CursorMonotonic ==
    [][~IsReset =>
          /\ next' \in {next, next + 1}
          /\ (IsMockDo /\ ~Exhausted) =>
                /\ next' = next + 1
                /\ expectations[next + 1].actual = <<>>
                /\ expectations'[next + 1].actual = << received'[Len(received')].rq >>
          /\ (IsMockDo /\ Exhausted) => next' = next
          /\ (~IsMockDo /\ next' # next) =>
                /\ next = noExpectedRequests
                /\ next' = firstExpectedRequest
                /\ Len(expectations') = 1
          /\ \A i \in 1..Len(expectations) :
                expectations[i].actual # <<>> =>
                   /\ expectations'[i].actual # <<>>
                   /\ SameRequest(expectations'[i].actual[1], expectations[i].actual[1])]_allVars

C25_Witness ==
    /\ ~wasReset
    /\ Len(expectations) = 2
    /\ next = 2
    /\ Len(received) = 2
    /\ unexpected = <<>>
    /\ ~SameRequest(expectations[1].actual[1], expectations[2].actual[1])

\* C26: when the expectation at the cursor is marked as not expected, mock.Do
\* attaches the request to it, moves the cursor by one, appends the request to
\* the unexpected list and returns a nil response with ErrUnexpectedRequest,
\* whatever response the expectation was configured with.
C26_NotExpectedSlot ==
    [][(IsMockDo /\ ~Exhausted /\ ~expectations[next + 1].isExpected) =>
          /\ expectations'[next + 1].actual = << received'[Len(received')].rq >>
          /\ next' = next + 1
          /\ unexpected' = Append(unexpected, received'[Len(received')].rq)
          /\ doResult'.isNil
          /\ doResult'.resp = NilResponse
          /\ doResult'.err = ErrUnexpectedRequest
          /\ mockpc' = "run"]_allVars

C26_Witness ==
    /\ Len(expectations) = 1
    /\ ~expectations[1].isExpected
    /\ expectations[1].Response # <<>>
    /\ expectations[1].Response[1].statusCode = <<StatusNotFound>>
    /\ expectations[1].Response[1].body # <<>>
    /\ Len(received) = 1
    /\ expectations[1].actual = <<LastReceived>>
    /\ next = 1
    /\ unexpected = <<LastReceived>>
    /\ doResult.isNil
    /\ Is(doResult.err, ErrUnexpectedRequest)

\* a run of C26 in which the expectation was configured to return an error
C26_WitnessError ==
    /\ Len(expectations) = 1
    /\ ~expectations[1].isExpected
    /\ expectations[1].Response # <<>>
    /\ expectations[1].Response[1].Err = ConfiguredErr
    /\ Len(received) = 1
    /\ unexpected = <<LastReceived>>
    /\ doResult.err = ErrUnexpectedRequest

C27_WitnessQuery ==
    /\ verdict.called
    /\ Len(expectations) = 1
    /\ verdict.errors = << "request #1: expecting: GET mock://hostname/a",
                           "   expected method: GET",
                           "      got         : POST",
                           "   expected url: mock://hostname/a",
                           "      got      : mock://hostname/a?x=1" >>

\* the number of lines of a body
NumLines(b) == 1 + Cardinality({i \in 1..Len(b) : b[i] = "\n"})

\* C28: for an expected expectation whose actual request has a body stream and
\* the right method, URL and headers: without a body constraint nothing is
\* reported; with one, nothing is reported exactly when the expected bytes
\* equal the actual bytes (two empty bodies are equal); otherwise the report
\* says no body was expected and how many bytes arrived when the expected
\* body is empty, how many bytes were expected and that none arrived when the
\* actual body is empty, and in every other case lists both bodies, one line
\* of the report for every line of the actual and of the expected body.
C28_BodyCheck ==
    (/\ verdict.called /\ verdict.fresh
     /\ Len(expectations) = 1
     /\ expectations[1].isExpected
     /\ expectations[1].actual # <<>>
     /\ expectations[1].method[1] = expectations[1].actual[1].method
     /\ expectations[1].url = expectations[1].actual[1].url
     /\ expectations[1].headers = NoHeader
     /\ ~expectations[1].actual[1].body.nil) =>
       LET e == expectations[1]
           actual == e.actual[1].body.data
           expected == e.body[1]
           rpt == ExpectationEntries
       IN  /\ e.body = <<>> => rpt = <<>>
           /\ e.body # <<>> =>
                 /\ rpt = <<>> <=> expected = actual
                 /\ (expected = <<>> /\ actual # <<>>) =>
                       rpt = << Heading1,
                                "   expected: <no body>",
                                "      got  : " \o Fmtd(Len(actual)) \o " bytes" >>
                 /\ (expected # <<>> /\ actual = <<>>) =>
                       rpt = << Heading1,
                                "   expected: " \o Fmtd(Len(expected)) \o " bytes",
                                "      got  : <no body>" >>
                 /\ (expected # <<>> /\ actual # <<>> /\ expected # actual) =>
                       /\ Len(rpt) = 4 + NumLines(actual) + NumLines(expected)
                       /\ rpt[1] = Heading1
                       /\ rpt[2] = "   request body differs from expected"
                       /\ rpt[3] = "      got   :_________"
                       /\ rpt[4 + NumLines(actual)] = "      wanted:_________"

C28_Witness ==
    /\ verdict.called /\ verdict.fresh
    /\ Len(expectations) = 1
    /\ expectations[1].body = << <<"a", "\n", "b">> >>
    /\ verdict.errors = << "request #1: expecting: GET mock://hostname/a",
                           "   request body differs from expected",
                           "      got   :_________",
                           "            |b",
                           "      wanted:_________",
                           "            |a",
                           "            |b" >>

\* a run of C28 in which an empty body was expected and one byte arrived
C28_WitnessNoBodyExpected ==
    /\ verdict.called /\ verdict.fresh
    /\ Len(expectations) = 1
    /\ expectations[1].body = << <<>> >>
    /\ verdict.errors = << "request #1: expecting: GET mock://hostname/a",
                           "   expected: <no body>",
                           "      got  : 1 bytes" >>

\* a run of C28 in which an empty body was expected and an empty body arrived
C28_WitnessBothEmpty ==
    /\ verdict.called /\ verdict.fresh
    /\ Len(expectations) = 1
    /\ expectations[1].body = << <<>> >>
    /\ expectations[1].actual # <<>>
    /\ ~expectations[1].actual[1].body.nil
    /\ expectations[1].actual[1].body.data = <<>>
    /\ verdict.isNil

\* C29: a request that is matched against an expected expectation gets a
\* response with every configured header, the configured status code (200
\* when none is set or no response is configured) and the configured body
\* bytes; when no response is configured or the configured body is empty the
\* body is the NoBody sentinel itself.  (Stated for the calls of mock.Do that
\* return.)
C29_ResponseSynthesis ==
    [][(IsMockDo /\ ~Exhausted /\ expectations[next + 1].isExpected /\ mockpc' = "run") =>
          LET configured == expectations[next + 1].Response
              r == doResult'
          IN  /\ ~r.isNil
              /\ ~r.resp.isNil
              /\ configured = <<>> =>
                    /\ r.resp.statusCode = StatusOK
                    /\ r.resp.body = NoBody
                    /\ r.err = NilErr
              /\ configured # <<>> =>
                    /\ r.resp.statusCode = IF configured[1].statusCode = <<>> THEN StatusOK
                                           ELSE configured[1].statusCode[1]
                    /\ \A k \in DOMAIN configured[1].headers :
                          /\ k \in DOMAIN r.header
                          /\ r.header[k] = << configured[1].headers[k] >>
                    /\ configured[1].body = <<>> => r.resp.body = NoBody
                    /\ configured[1].body # <<>> =>
                          /\ r.resp.body # NoBody
                          /\ r.resp.body.data = configured[1].body]_allVars

C29_Witness ==
    /\ Len(expectations) = 1
    /\ expectations[1].isExpected
    /\ expectations[1].Response # <<>>
    /\ expectations[1].Response[1].body = <<"a">>
    /\ ~doResult.isNil
    /\ doResult.resp.statusCode = StatusNotFound
    /\ doResult.resp.body = RecorderBody(<<"a">>)
    /\ doResult.header = SetHeader(NoHeader, "X-Key", <<"v1">>)
    /\ doResult.err = NilErr

\* a run of C29 in which a response is configured without a body
C29_WitnessNoBody ==
    /\ Len(expectations) = 1
    /\ expectations[1].Response # <<>>
    /\ expectations[1].Response[1].statusCode = <<StatusNotFound>>
    /\ expectations[1].Response[1].body = <<>>
    /\ ~doResult.isNil
    /\ doResult.resp.statusCode = StatusNotFound
    /\ doResult.resp.body = NoBody

\* a run of C29 in which a body is configured and no status code: the
\* recorder adds the content type it detects
C29_WitnessContentType ==
    /\ Len(expectations) = 1
    /\ expectations[1].Response # <<>>
    /\ expectations[1].Response[1].headers = NoHeader
    /\ ~doResult.isNil
    /\ doResult.resp.statusCode = StatusOK
    /\ doResult.header = SetHeader(NoHeader, "Content-Type", <<ContentType>>)

\* the expectation e has the response configuration WillReturnError stores,
\* with nothing added to it afterwards
ReturnsError(e) == e.Response = << MockResponse(<<>>, NoHeader, <<>>, ConfiguredErr) >>

\* C30: the request that reaches an expected expectation configured with
\* WillReturnError(e) gets e as the error of mock.Do; it is attached to the
\* expectation as its actual request and is not added to the unexpected list;
\* ExpectationsWereMet then reports nothing for that expectation when the
\* request meets its constraints, and returns nil when no other request was
\* made.
C30_ConfiguredError ==
    /\ [][(IsMockDo /\ ~Exhausted /\ expectations[next + 1].isExpected
              /\ ReturnsError(expectations[next + 1])) =>
             /\ doResult'.err = ConfiguredErr
             /\ Is(doResult'.err, ConfiguredErr)
             /\ expectations'[next + 1].actual = << received'[Len(received')].rq >>
             /\ next' = next + 1
             /\ unexpected' = unexpected
             /\ mockpc' = "run"]_allVars
    /\ [](\A i \in 1..Len(expectations) :
             (/\ verdict.called
              /\ expectations[i].isExpected
              /\ ReturnsError(expectations[i])
              /\ expectations[i].actual # <<>>
              /\ Satisfies(expectations[i], expectations[i].actual[1])) =>
                /\ \A j \in 1..Len(verdict.errors) : verdict.errors[j] # Heading(i)
                /\ unexpected = <<>> => verdict.isNil)

C30_Witness ==
    /\ Len(expectations) = 1
    /\ expectations[1].isExpected
    /\ ReturnsError(expectations[1])
    /\ Len(received) = 1
    /\ expectations[1].actual = <<LastReceived>>
    /\ doResult.err = ConfiguredErr
    /\ unexpected = <<>>

\* a run of C30 in which ExpectationsWereMet returns nil afterwards
C30_WitnessMet ==
    /\ Len(expectations) = 1
    /\ ReturnsError(expectations[1])
    /\ Len(received) = 1
    /\ expectations[1].actual # <<>>
    /\ verdict.called
    /\ verdict.isNil

(* ------------------------ clients built by NewClient -------------------- *)

\* faulty variant of Wrapped: the Using option is ignored
WrappedIgnoresUsing(using) == "http.DefaultClient"

\* the field wrapped of a new client: NewClient stores http.DefaultClient, the
\* one instance package net/http exports, and the option Using(t) replaces it
\* (using = <<>>: the option was not given; <<t>>: Using(t) was)
Wrapped(using) == IF using = <<>> THEN "http.DefaultClient" ELSE using[1]

\* NewClient(name) and NewClient(name, Using(using[1])): the client is a
\* struct value of its own
NewClient(name, using) ==
    /\ Len(clients) < MaxClients
    /\ clients' = Append(clients, [name |-> name, url |-> "", maxRetries |-> 0,
                                   wrapped |-> Wrapped(using), using |-> using])
    /\ UNCHANGED <<vars, mockVars, target, callers>>

\* a program that builds clients, some of them with a transport of its own
NextClients ==
    \E name \in {"a", "b"}, using \in {<<>>, <<"t1">>, <<"t2">>} : NewClient(name, using)

SpecClients == Init /\ [][NextClients]_allVars

(* properties of the fourth group of claims *)

IsCountText(s) == IsIntegerText(s) /\ s[1] # "-"

\* C32: a max-retries directive whose value is not a non-negative decimal
\* integer is rejected with ErrInvalidRequestHeader before any invocation of
\* the transport, and an accepted value v results in at most v + 1
\* invocations.  (Stated for the calls of client.Do in which directive
\* parsing has returned.)
C32_UnsignedCount ==
    (/\ pc \in {"send", "done"}
     /\ MaxRetriesHeader \in DOMAIN called
     /\ called[MaxRetriesHeader] # <<>>) =>
        LET s == called[MaxRetriesHeader][1]
        IN  IF IsCountText(s)
            THEN Len(calls) <= Atoi(s).val + 1
            ELSE /\ Returned
                 /\ resp.isNil
                 /\ Is(err, ErrInvalidRequestHeader)
                 /\ calls = <<>>

(* ------------------ mock.Do called by several goroutines ---------------- *)
(* mock.Do takes no lock: a call is a sequence of reads and writes of       *)
(* mock.next, mock.expectations and mock.unexpected, and the reads and      *)
(* writes of calls made at the same time interleave.                        *)

\* one read or write of mock.Do made by the goroutine c, whose request is
\* a GET of the path "/c".  The positions of a call:
\*   "idle"   mock.Do has not been called
\*   "check"  the condition of the if statement reads mock.next
\*   "index"  mock.expectations[mock.next] reads mock.next
\*   "attach" expected.actual = rq
\*   "read"   mock.next++ reads mock.next
\*   "write"  mock.next++ writes mock.next, and the switch is decided
\*   "load"   append(mock.unexpected, rq) reads mock.unexpected
\*   "store"  mock.unexpected is assigned
\*   "done"   mock.Do has returned
\* alone is FALSE for a call that was in progress while another one was.
RaceStep(c) ==
    LET me == callers[c]
        rq == Request(MethodGet, JoinPath(Hostname, "/" \o Fmtd(c)), NoHeader, NilBody)
        busy == {d \in DOMAIN callers \ {c} : callers[d].pc \notin {"idle", "done"}}
        Marked(f) == [d \in DOMAIN callers |->
                         IF d \in busy \/ (d = c /\ busy # {})
                         THEN [f[d] EXCEPT !.alone = FALSE] ELSE f[d]]
    IN  /\ mockpc = "run"
        /\ CASE me.pc = "idle" ->
                    /\ callers' = Marked([callers EXCEPT ![c].pc = "check", ![c].rq = <<rq>>])
                    /\ received' = Append(received,
                                          [rq |-> rq, registered |-> Len(expectations)])
                    /\ UNCHANGED <<expectations, next, unexpected, mockpc, fault>>
             [] me.pc = "check" ->
                    /\ callers' = [callers EXCEPT ![c].pc =
                                      IF next # noExpectedRequests /\ next < Len(expectations)
                                      THEN "index" ELSE "load"]
                    /\ UNCHANGED <<expectations, next, unexpected, received, mockpc, fault>>
             [] me.pc = "index" ->
                    /\ IF next < Len(expectations)
                       THEN /\ callers' = [callers EXCEPT ![c].pc = "attach", ![c].index = next]
                            /\ UNCHANGED <<mockpc, fault>>
                       ELSE /\ callers' = [callers EXCEPT ![c].pc = "done"]
                            /\ mockpc' = "panic"
                            /\ fault' = Sentinel("index out of range")
                    /\ UNCHANGED <<expectations, next, unexpected, received>>
             [] me.pc = "attach" ->
                    /\ expectations' = [expectations EXCEPT ![me.index + 1].actual = me.rq]
                    /\ callers' = [callers EXCEPT ![c].pc = "read"]
                    /\ UNCHANGED <<next, unexpected, received, mockpc, fault>>
             [] me.pc = "read" ->
                    /\ callers' = [callers EXCEPT ![c].pc = "write", ![c].cursor = next]
                    /\ UNCHANGED <<expectations, next, unexpected, received, mockpc, fault>>
             [] me.pc = "write" ->
                    /\ next' = Advance(me.cursor)
                    /\ callers' = [callers EXCEPT ![c].pc =
                                      IF Responds(expectations[me.index + 1])
                                      THEN "done" ELSE "load"]
                    /\ UNCHANGED <<expectations, unexpected, received, mockpc, fault>>
             [] me.pc = "load" ->
                    /\ callers' = [callers EXCEPT ![c].pc = "store", ![c].slice = unexpected]
                    /\ UNCHANGED <<expectations, next, unexpected, received, mockpc, fault>>
             [] me.pc = "store" ->
                    /\ unexpected' = RecordUnexpected(me.slice, me.rq[1])
                    /\ callers' = [callers EXCEPT ![c].pc = "done"]
                    /\ UNCHANGED <<expectations, next, received, mockpc, fault>>
             [] me.pc = "done" -> FALSE
        /\ UNCHANGED <<doResult, verdict, wasReset>>
        /\ UNCHANGED <<vars, clients, target>>

\* a mock with up to MaxExpectations expectations, each of which may be marked
\* as not expected, and then one call of mock.Do by every goroutine
NextRace ==
    \/ Len(expectations) < MaxExpectations /\ received = <<>> /\ Expect(MethodGet, "/1")
    \/ received = <<>> /\ \E i \in 1..Len(expectations) : WillNotBeCalled(i)
    \/ \E c \in DOMAIN callers : RaceStep(c)

SpecRace == InitMock /\ [][NextRace]_allVars

\* the goroutines whose call of mock.Do has returned
Finished == {c \in DOMAIN callers : callers[c].pc = "done"}

\* no call of mock.Do is in progress
Quiescent == \A c \in DOMAIN callers : callers[c].pc \in {"idle", "done"}

\* no call of mock.Do was in progress while another one was
Serialized == \A c \in DOMAIN callers : callers[c].alone

\* the expectations the request of the goroutine c is attached to
Slots(c) == {i \in 1..Len(expectations) : expectations[i].actual = callers[c].rq}

\* the entries of mock.unexpected that hold the request of the goroutine c
Entries(c) == {j \in 1..Len(unexpected) : unexpected[j] = callers[c].rq[1]}

\* the position of the cursor after k requests, with e expectations registered
CursorAfter(k, e) == IF e = 0 THEN noExpectedRequests ELSE IF k < e THEN k ELSE e

\* C33: mock.Do is not atomic.  When the calls are serialized, every request
\* gets a slot of its own or an unexpected entry of its own: the cursor has
\* advanced once for every request that found an expectation, every request
\* is attached to one expectation or logged once in mock.unexpected, and
\* those logged are the ones that found no expectation or one marked as not
\* expected.  Any state in which the accounting is broken was reached by
\* calls that overlapped.
C33_SerializedCallsAccounted ==
    (mockpc = "run" /\ Quiescent /\ Serialized) =>
        /\ next = CursorAfter(Cardinality(Finished), Len(expectations))
        /\ \A c \in Finished :
              /\ Cardinality(Slots(c)) + Cardinality(Entries(c)) >= 1
              /\ Cardinality(Slots(c)) <= 1
              /\ Cardinality(Entries(c)) =
                    IF Slots(c) = {} \/ \E i \in Slots(c) : ~expectations[i].isExpected
                    THEN 1 ELSE 0
        /\ Len(unexpected) = Cardinality({c \in Finished : Entries(c) # {}})

\* calls that overlapped: both have returned, both found the expectation at
\* the cursor, and only one request is attached to it; the other is recorded
\* nowhere
C33_Witness ==
    /\ Finished = DOMAIN callers
    /\ ~Serialized
    /\ Len(expectations) >= 1
    /\ expectations[1].isExpected
    /\ \E c \in Finished : Slots(c) = {} /\ Entries(c) = {}

\* calls that overlapped: an advance of the cursor is lost
C33_WitnessLostAdvance ==
    /\ Finished = DOMAIN callers
    /\ Len(expectations) >= 2
    /\ next = 1

\* calls that overlapped: an entry of mock.unexpected is lost
C33_WitnessLostEntry ==
    /\ Finished = DOMAIN callers
    /\ expectations = <<>>
    /\ Len(unexpected) < Cardinality(Finished)

\* serialized calls, each request in a slot of its own
C33_WitnessSerialized ==
    /\ Finished = DOMAIN callers
    /\ Serialized
    /\ Len(expectations) >= 2
    /\ \A c \in Finished : Cardinality(Slots(c)) = 1

(* ------------- the client NewMockClient returns, with its mock ---------- *)
(* NewMockClient builds the client with URL(hostname) and Using(mock): the  *)
(* transport of the client is the mock, and its maxRetries is zero.         *)

\* NewRequest(ctx, method, path) of the paired client: the URL of the request
\* is url.JoinPath(c.url, path), and c.url is the hostname of the mock
NewRequest(method, path) ==
    /\ pc = "build"
    /\ target = <<>>
    /\ target' = << [method |-> method, path |-> path, url |-> JoinPath(Hostname, path)] >>
    /\ UNCHANGED <<vars, mockVars, clients, callers>>

\* one invocation of the transport by the loop of client.do, the transport
\* being the mock, and client.Do up to the next invocation or its return.
\* (client.do returns the response the transport returned together with its
\* error; the text of the error is that of the client model's request.)
PairedAttempt ==
    LET rq == Request(target[1].method, target[1].url, rqHeader, NilBody)
    IN  /\ pc = "send"
        /\ target # <<>>
        /\ Len(calls) < MaxCalls
        /\ MockDoEffect(rq)
        /\ LET out == doResult'
               failed == out.err # NilErr
               d == DoOnError(retries, n, out.err)
               st == NewStream(out.resp.body.data, FALSE)
               e == StatusError(accept, out.resp.statusCode)
               b == HandleBody(out.resp, st, bodyRequired, stream)
           IN  /\ calls' = Append(calls, [keys |-> DOMAIN rqHeader, ok |-> ~failed,
                                          statusCode |-> out.resp.statusCode])
               /\ IF mockpc' = "panic"
                  THEN /\ pc' = "panic"
                       /\ UNCHANGED <<n, resp, err, tbody>>
                  ELSE IF failed
                  THEN /\ n' = d.n
                       /\ IF d.again
                          THEN UNCHANGED <<pc, resp, err>>
                          ELSE /\ pc' = "done"
                               /\ resp' = out.resp
                               /\ err' = Handle(d.err)
                       /\ UNCHANGED tbody
                  ELSE /\ pc' = "done"
                       /\ IF e # NilErr
                          THEN /\ resp' = out.resp
                               /\ err' = Handle(e)
                               /\ tbody' = st
                          ELSE /\ resp' = b.resp
                               /\ err' = b.err
                               /\ tbody' = b.stream
                       /\ UNCHANGED n
        /\ UNCHANGED <<maxRetries, rqHeader, given, called, retries, accept,
                       bodyRequired, stream>>
        /\ UNCHANGED auxVars

\* a mock with up to MaxExpectations expectations, and one call of Do of the
\* paired client with a request built by its NewRequest
NextPaired ==
    \/ pc = "build" /\ Len(expectations) < MaxExpectations
          /\ \E m \in MockMethods, p \in {"/a", "/b"} : Expect(m, p)
    \/ pc = "build" /\ \E i \in 1..Len(expectations) : WillNotBeCalled(i)
    \/ pc = "build" /\ \E i \in 1..Len(expectations) : WillReturnError(i, ConfiguredErr)
    \/ \E m \in MockMethods, p \in {"/a", "/b"} : NewRequest(m, p)
    \/ target # <<>> /\ \E k \in 0..MaxClientRetries : OptMaxRetries(k)
    \/ target # <<>> /\ DoParse
    \/ PairedAttempt
    \/ pc = "done" /\ ExpectationsWereMet(HeaderKeys, HeaderKeys)

SpecPaired == InitMock /\ [][NextPaired]_allVars

\* the mock has one expectation, registered by Expect(m, p) and left as it
\* was, and the paired client has returned from Do with the request its
\* NewRequest(m, p) built, no request option applied
HappyPath ==
    /\ pc = "done"
    /\ target # <<>>
    /\ called = NoHeader
    /\ Len(expectations) = 1
    /\ received # <<>>
    /\ received[1].registered = 1
    /\ expectations[1].isExpected
    /\ expectations[1].Response = <<>>
    /\ expectations[1].method = <<target[1].method>>
    /\ expectations[1].url = JoinPath(Hostname, target[1].path)

C35_ReadOnlyQuery ==
    [][verdict'.called =>
          /\ expectations' = expectations
          /\ next' = next
          /\ unexpected' = unexpected
          /\ verdict.called =>
                /\ verdict'.isNil = verdict.isNil
                /\ Len(verdict'.errors) = Len(verdict.errors)]_allVars

\* C36: whenever client.Do returns a response and streaming was not
\* requested, the body stream of the transport has been read to its end (or
\* until the read failed) and closed, and the body of the returned response
\* is http.NoBody or an in-memory copy, on every return path.
C36_BodyDrained ==
    (Returned /\ ~resp.isNil /\ ~stream) =>
        /\ tbody.eof \/ tbody.fails
        /\ tbody.closed
        /\ resp.body.kind \in {"NoBody", "memory"}

\* the requests from the j-th on that found no expectation at the cursor or
\* one marked as not expected, in the order of their arrival
RECURSIVE NotMatchedFrom(_)
NotMatchedFrom(j) ==
    IF j > Len(received) THEN <<>>
    ELSE (IF j > Len(expectations) \/ ~expectations[j].isExpected
          THEN <<received[j].rq>> ELSE <<>>) \o NotMatchedFrom(j + 1)

\* C37: after n >= 1 calls of Expect followed by k calls of Do, with no Reset,
\* the cursor is min(k, n); the expectation i (counted from 0) has an actual
\* request exactly when i < min(k, n), and it is the (i+1)-th request
\* received; the unexpected list holds, in the order of arrival, exactly the
\* requests that landed on expectations marked as not expected and the k - n
\* requests received after the last expectation.
C37_MockAccounting ==
    (mockpc = "run" /\ ~wasReset /\ InOrder /\ Len(expectations) >= 1) =>
        /\ next = CursorAfter(Len(received), Len(expectations))
        /\ \A i \in 1..Len(expectations) :
              /\ expectations[i].actual # <<>> <=> i <= next
              /\ expectations[i].actual # <<>> =>
                    SameRequest(expectations[i].actual[1], received[i].rq)
        /\ unexpected = NotMatchedFrom(1)
        /\ \A j \in 1..Len(received) :
              \/ j <= Len(expectations) /\ expectations[j].actual # <<>>
              \/ \E u \in 1..Len(unexpected) : unexpected[u] = received[j].rq

\* one expectation marked as not expected and two different requests: the
\* first landed on it, the second came after the last expectation
C37_Witness ==
    /\ ~wasReset
    /\ InOrder
    /\ Len(expectations) = 1
    /\ ~expectations[1].isExpected
    /\ Len(received) = 2
    /\ received[1].rq # received[2].rq
    /\ next = 1
    /\ expectations[1].actual # <<>>
    /\ unexpected = <<received[1].rq, received[2].rq>>

\* two expectations and one request: the second expectation has no actual
C37_WitnessPending ==
    /\ ~wasReset
    /\ InOrder
    /\ Len(expectations) = 2
    /\ Len(received) = 1
    /\ next = 1
    /\ expectations[2].actual = <<>>
    /\ unexpected = <<>>

\* the number of requests that arrived when no expectation was left
AfterExhaustion ==
    IF Len(received) > Len(expectations) THEN Len(received) - Len(expectations) ELSE 0

\* C38: when the paired client retries, every attempt is a separate request
\* to the mock: a call of client.Do that has made a attempts has moved the
\* cursor of the mock by min(a, number of expectations), and the unexpected
\* list has one entry for every attempt made when no expectation was left
\* (besides those for attempts that landed on expectations marked as not
\* expected); a call with the effective max-retries N against a mock without
\* expectations leaves N + 1 entries.
C38_RetriesSeenByMock ==
    (mockpc = "run" /\ pc \in {"send", "done"}) =>
        /\ Len(received) = Len(calls)
        /\ \A j \in 1..Len(received) :
              /\ received[j].rq.method = target[1].method
              /\ received[j].rq.url = target[1].url
        /\ next = CursorAfter(Len(calls), Len(expectations))
        /\ unexpected = NotMatchedFrom(1)
        /\ SubSeq(unexpected, Len(unexpected) - AfterExhaustion + 1, Len(unexpected))
              = [j \in 1..AfterExhaustion |-> received[Len(expectations) + j].rq]
        /\ (pc = "done" /\ expectations = <<>>) => Len(unexpected) = retries + 1

\* max-retries 2 against a mock without expectations: three entries
C38_Witness ==
    /\ pc = "done"
    /\ expectations = <<>>
    /\ retries = 2
    /\ Len(calls) = 3
    /\ Len(unexpected) = 3
    /\ Is(err, ErrMaxRetriesExceeded)
    /\ Is(err, ErrUnexpectedRequest)

\* three attempts against a mock with two expectations that fail the request:
\* the cursor has moved by two, and the third attempt is unexpected
C38_WitnessCursor ==
    /\ pc = "done"
    /\ Len(expectations) = 2
    /\ expectations[1].isExpected
    /\ ~expectations[2].isExpected
    /\ Len(calls) = 3
    /\ next = 2
    /\ Len(unexpected) = 2

\* the directive headers of the request handed to client.Do were written by
\* the request options only
WrittenByOptions ==
    /\ ~given.rawAccept
    /\ MaxRetriesHeader \in DOMAIN called => given.retries # {}
    /\ AcceptStatusHeader \in DOMAIN called => given.codes # {}
    /\ DOMAIN called \cap {MaxRetriesHeader, AcceptStatusHeader} # {}

\* C39: a request whose accept-status directive was written only by the
\* AcceptStatus option, with any integer status codes, and whose max-retries
\* directive was written only by the MaxRetries option passes directive
\* parsing and reaches the transport.  (Stated for the calls of client.Do in
\* which directive parsing has returned.)
C39_OptionDirectivesAccepted ==
    (pc \in {"send", "done"} /\ WrittenByOptions) =>
        /\ ~Is(err, ErrInvalidRequestHeader)
        /\ pc = "send" \/ calls # <<>>

====
